---- MODULE Spec2Model ----
(***************************************************************************)
(* State-machine model of the four on-chain programs of the repository:    *)
(*   booty            (src/solana/programs/booty/src/lib.rs)               *)
(*   game             (src/solana/programs/game/src/lib.rs)                *)
(*   treasure_deposit (src/solana/programs/treasure-deposit/src/lib.rs)    *)
(*   dotty_nft        (src/solana/programs/dotty-nft/src/lib.rs)           *)
(*                                                                         *)
(* Every instruction is one atomic action.  An instruction that returns    *)
(* Err, or panics, aborts its transaction: the runtime discards every      *)
(* account write and every cross-program effect made so far, so the        *)
(* handlers below return the state they were given on each error path.     *)
(* Account validation follows the order of the Accounts structs: accounts  *)
(* are deserialised, `init` accounts are created, then the `constraint`s   *)
(* are evaluated in field order, and only then the handler body runs.      *)
(*                                                                         *)
(* A u64 has its full width.  It is written in base 10^6, four digits,     *)
(* most significant first: <<a, b, c, d>> is the number                    *)
(* a * 10^18 + b * 10^12 + c * 10^6 + d, so that 100_000_000 is            *)
(* <<0, 0, 100, 0>> and u64::MAX is <<18, 446744, 73709, 551615>>.         *)
(***************************************************************************)
EXTENDS Integers, Sequences, FiniteSets, TLC

\* ------------------------------------------------------------------ bounds

\* the host clock (unix_timestamp) runs from 0 to MaxClock
MaxClock == 1

\* wallets: players, payers, authorities
Keys == {"alice", "bob"}

\* ------------------------------------------------------------------ values

\* Option<T>
None == <<>>
Some(x) == <<x>>
IsSome(o) == Len(o) = 1
Unwrap(o) == o[1]

\* the base of the digits of a u64
Base == 1000000
\* the u64 of a natural below 2^31
U64(n) == <<0, 0, n \div Base, n % Base>>
\* u64::MAX = 18_446_744_073_709_551_615
U64_MAX == <<18, 446744, 73709, 551615>>

\* a < b
Lt(a, b) ==
    \/ a[1] < b[1]
    \/ a[1] = b[1] /\ a[2] < b[2]
    \/ a[1] = b[1] /\ a[2] = b[2] /\ a[3] < b[3]
    \/ a[1] = b[1] /\ a[2] = b[2] /\ a[3] = b[3] /\ a[4] < b[4]
\* a <= b
Le(a, b) == a = b \/ Lt(a, b)

\* a + b in full: the leading digit is not reduced, so that a sum of u64
\* values above u64::MAX is still the sum
Add(a, b) ==
    LET d4 == a[4] + b[4]
        d3 == a[3] + b[3] + d4 \div Base
        d2 == a[2] + b[2] + d3 \div Base
        d1 == a[1] + b[1] + d2 \div Base
    IN  <<d1, d2 % Base, d3 % Base, d4 % Base>>

\* a - b, for b <= a
Sub(a, b) ==
    LET d4 == a[4] - b[4]
        c4 == IF d4 < 0 THEN 1 ELSE 0
        d3 == a[3] - b[3] - c4
        c3 == IF d3 < 0 THEN 1 ELSE 0
        d2 == a[2] - b[2] - c3
        c2 == IF d2 < 0 THEN 1 ELSE 0
        d1 == a[1] - b[1] - c2
    IN  <<d1, d2 + c2 * Base, d3 + c3 * Base, d4 + c4 * Base>>

\* a / n (integer division) and a % n, for 0 < n <= 2147
DivSmall(a, n) ==
    LET x2 == (a[1] % n) * Base + a[2]
        x3 == (x2 % n) * Base + a[3]
        x4 == (x3 % n) * Base + a[4]
    IN  <<a[1] \div n, x2 \div n, x3 \div n, x4 \div n>>
ModSmall(a, n) ==
    LET x2 == (a[1] % n) * Base + a[2]
        x3 == (x2 % n) * Base + a[3]
        x4 == (x3 % n) * Base + a[4]
    IN  x4 % n
\* a / 1_000_000: the last digit is dropped
DivBase(a) == <<0, a[1], a[2], a[3]>>

\* u64::checked_add
checked_add(a, b) ==
    LET sum == Add(a, b) IN IF Lt(U64_MAX, sum) THEN None ELSE Some(sum)

\* the empty account store (no account exists at any address)
NoAccounts == <<>>
\* the store `m` with the account `a` written at address `k`
Put(m, k, a) == [x \in (DOMAIN m) \cup {k} |-> IF x = k THEN a ELSE m[x]]

\* SPL mints: the mint created by initialize of the booty program, the mint
\* created by initialize_booty_mint of the game program, and two mints created
\* elsewhere: the asset the players hold and deposit, and another asset
BootyMintKey == "booty_mint"
GameBootyMintKey == "game_booty_mint"
AssetMintKey == "mint_a"
OtherMintKey == "mint_b"
\* the mint account handed to mine_tokens / burn_tokens
MintKeys == {BootyMintKey, OtherMintKey}
\* the mint account handed to mine_booty / burn_booty_for_travel
GameMintKeys == {GameBootyMintKey, OtherMintKey}
\* mints of assets that may be put on the whitelist
AssetMints == {AssetMintKey, OtherMintKey}
\* every mint of the token program
Mints == {BootyMintKey, GameBootyMintKey} \cup AssetMints

\* program-derived addresses ("seeds")
ConfigPda == "config"
VaultPda == "vault"
BootyStatePda == "booty-state"

\* inputs
Half == DivSmall(U64_MAX, 2)
LedgerAmounts == {U64(0), Half, U64_MAX}
OptCaps == {None, Some(Half), Some(U64_MAX)}
OptKeys == {None} \cup {Some(k) : k \in Keys}

\* minimum deposit of hide_treasure / deposit_for_monster (100 tokens, 6 decimals)
MIN_DEPOSIT == U64(100000000)
DepositAmounts == {Sub(MIN_DEPOSIT, U64(1)), MIN_DEPOSIT, U64_MAX}
\* owners of token accounts: the wallets, and the holder of the token account
\* meant to receive the deposits
VaultOwner == "vault_owner"
Holders == Keys \cup {VaultOwner}
\* a token account, named by its mint and its owner
TokenAccountOf(mint, owner) == <<mint, owner>>
\* the accounts of the asset mints and what they hold before the first
\* instruction: every holder has an account of each asset mint, the whole
\* supply of the asset the players deposit (a u64) is with one player, and
\* nobody holds any of the other asset
AssetInit ==
    [m \in AssetMints |->
        [h \in Holders |-> IF m = AssetMintKey /\ h = "alice" THEN U64_MAX ELSE U64(0)]]
\* the asset accounts when each player holds two minimum deposits
AssetPurses ==
    [m \in AssetMints |->
        [h \in Holders |-> IF m = AssetMintKey /\ h \in Keys
                           THEN Add(MIN_DEPOSIT, MIN_DEPOSIT) ELSE U64(0)]]
\* collectible mint keypairs and titles
NftMintKeys == {"nft_1", "nft_2"}
Titles == {"Dotty", "Monster"}
\* map coordinates (i32)
Coords == {-2147483647 - 1, 2147483647}
\* treasure_id / search_id values (i64)
RecordIds == {-1, 7}

VARIABLES
    scope,            \* the run explored: the ranges the inputs are drawn from
    result,           \* the instruction last processed and what it returned
    config,           \* booty: BootyConfig account at PDA ["config"]
    token_account,    \* booty: BOOTY token accounts (the wallet's associated account) -> amount
    cap_high,         \* booty: history, the highest max_supply stored so far
    vault,            \* game: TreasureVault account at PDA ["vault"]
    treasure_record,  \* game: TreasureRecord accounts at PDA ["treasure", player, treasure_id]
    whitelist,        \* game: TokenWhitelist accounts at PDA ["whitelist", token_mint account]
    td_vault,         \* treasure_deposit: TreasureVault account at PDA ["vault"]
    deposit_record,   \* treasure_deposit: DepositRecord accounts at PDA ["deposit", player, unix_timestamp]
    td_whitelist,     \* treasure_deposit: TokenWhitelist accounts
    asset_account,    \* token program: token accounts of the asset mints, mint -> owner -> amount
    clock,            \* the host clock: Clock::get()?.unix_timestamp
    search_record,    \* game: SearchRecord accounts at PDA ["search", player, search_id]
    booty_state,      \* game: BootyState account at PDA ["booty-state"]
    player_booty_account, \* game: $BOOTY token accounts (the wallet's associated account) -> amount
    nft_mint,         \* token program: the collectible mints created, by mint key
    nft_metadata,     \* metadata program: the metadata accounts created, by mint key
    tier_call         \* game: the last call of calculate_tier, its amount and its result

bootyVars == <<config, token_account, cap_high>>
gameVaultVars == <<vault, treasure_record, whitelist>>
tdVars == <<td_vault, deposit_record, td_whitelist>>
gameBootyVars == <<booty_state, player_booty_account>>
nftVars == <<nft_mint, nft_metadata>>
\* the token accounts a deposit can move tokens between
tokenVars == <<asset_account, player_booty_account, token_account>>
vars == <<scope, result, clock, bootyVars, gameVaultVars, tdVars, asset_account,
          search_record, gameBootyVars, nftVars, tier_call>>

\* The programs take any instruction at any time.  `scope` names the run a
\* behaviour belongs to: "whole" is the whole system, every instruction over
\* the widest ranges of inputs.  The other runs are the bounded ones the
\* specifications at the end of the module explore: each is a part of the
\* instructions, chosen by the next-state relation of its specification, over
\* the ranges below.  No instruction reads `scope` for anything but the range
\* of an input, and none changes it.

\* a supply ledger together with a vault its tokens are deposited in: the
\* $BOOTY ledger of the game with the game's vault, and the booty program
\* with the vault of the game or of the treasure_deposit program
CrossScopes == {"game_economy", "booty_game", "booty_td"}
\* a vault with its whitelist (and, in the game, the searches)
EntryScopes == {"game_entries", "td_entries"}
\* a vault with the collectibles
CollectibleScopes == {"game_collectibles", "td_collectibles"}
\* the runs that combine instruction groups draw their inputs from smaller sets
NarrowScopes == CrossScopes \cup EntryScopes \cup CollectibleScopes
\* the mints whose token accounts the deposits of the run draw on
DepositMints ==
    IF scope = "whole" THEN {BootyMintKey, GameBootyMintKey, AssetMintKey}
    ELSE IF scope = "game_economy" THEN {GameBootyMintKey, AssetMintKey}
    ELSE IF scope = "booty_game" THEN {BootyMintKey, AssetMintKey}
    ELSE IF scope = "booty_td" THEN {BootyMintKey}
    ELSE {AssetMintKey}
\* the token accounts a deposit may name as its source and as its
\* destination; the destinations include an account of another mint
SourceAccounts == DepositMints \X Keys
DestinationAccounts ==
    (DepositMints \X (IF scope \in NarrowScopes THEN {VaultOwner} ELSE Holders))
        \cup {TokenAccountOf(OtherMintKey, VaultOwner)}
\* the inputs of an instruction
RunAmounts ==
    IF scope \in CrossScopes THEN {Half}
    ELSE IF scope = "ledger_pair" THEN {Half, U64_MAX}
    ELSE LedgerAmounts
RunCaps ==
    IF scope \in CrossScopes THEN {None}
    ELSE IF scope = "ledger_pair" THEN {None, Some(Half)}
    ELSE OptCaps
RunDeposits == IF scope \in NarrowScopes THEN {MIN_DEPOSIT} ELSE DepositAmounts
RunIds == IF scope \in CrossScopes \cup CollectibleScopes THEN {7} ELSE RecordIds
RunCoords == IF scope \in NarrowScopes THEN {2147483647} ELSE Coords

\* what the instruction last processed returned: its name, "Ok" or the error,
\* and whether it had invoked the external token / metadata program
Res(ix, err, cpi) == [ix |-> ix, err |-> err, cpi |-> cpi]

\* ==================================================================
\* booty program
\* ==================================================================

\* total supply of the BOOTY mint held by the external token program
Supply(tok) ==
    LET RECURSIVE Sum(_)
        Sum(S) == IF S = {} THEN U64(0)
                  ELSE LET k == CHOOSE x \in S : TRUE IN Add(tok[k], Sum(S \ {k}))
    IN Sum(DOMAIN tok)

\* token::mint_to: None when the token program rejects it (the supply of the
\* mint is a u64)
spl_mint_to(tok, to, amount) ==
    IF ~IsSome(checked_add(Supply(tok), amount)) THEN None
    ELSE Some([tok EXCEPT ![to] = Add(@, amount)])

\* faulty variant: the token program accepts a burn above the balance
spl_burn_unchecked(tok, from, amount) ==
    Some([tok EXCEPT ![from] = IF Lt(@, amount) THEN U64(0) ELSE Sub(@, amount)])

\* token::burn: None when the token program rejects it
spl_burn(tok, from, amount) ==
    IF Lt(tok[from], amount) THEN None
    ELSE Some([tok EXCEPT ![from] = Sub(@, amount)])

\* the outcome of a handler: the error (or "Ok"), whether the external
\* primitive was invoked, and the accounts as the transaction leaves them
Out(err, cpi, cfg, tok) == [err |-> err, cpi |-> cpi, config |-> cfg, token_account |-> tok]

\* faulty variant: `init_if_needed`: an existing config is written over
initialize_if_needed(cfg, tok, authority, mint, max_supply) ==
    Out("Ok", FALSE,
        Put(cfg, ConfigPda,
            [mint |-> mint, mint_authority |-> authority,
             total_mined |-> U64(0), total_burned |-> U64(0),
             max_supply |-> max_supply]),
        tok)

initialize(cfg, tok, authority, mint, max_supply) ==
    IF ConfigPda \in DOMAIN cfg
    THEN Out("AccountAlreadyInUse", FALSE, cfg, tok)
    ELSE Out("Ok", FALSE,
             Put(cfg, ConfigPda,
                 [mint |-> mint, mint_authority |-> authority,
                  total_mined |-> U64(0), total_burned |-> U64(0),
                  max_supply |-> max_supply]),
             tok)

\* faulty variant: the cap is compared with the amount minted, not with the new total
mine_cap_check_amount_only(total_mined, amount, max_supply) ==
    IF IsSome(max_supply)
    THEN LET new_total == checked_add(total_mined, amount) IN
         IF ~IsSome(new_total) THEN "ArithmeticOverflow"
         ELSE IF ~Le(amount, Unwrap(max_supply)) THEN "MaxSupplyExceeded"
         ELSE "Ok"
    ELSE "Ok"

\* the max-supply check of mine_tokens: "Ok" or the error it raises
mine_cap_check(total_mined, amount, max_supply) ==
    IF IsSome(max_supply)
    THEN LET new_total == checked_add(total_mined, amount) IN
         IF ~IsSome(new_total) THEN "ArithmeticOverflow"
         ELSE IF ~Le(Unwrap(new_total), Unwrap(max_supply)) THEN "MaxSupplyExceeded"
         ELSE "Ok"
    ELSE "Ok"

mine_tokens(cfg, tok, player, mint, amount) ==
    IF ConfigPda \notin DOMAIN cfg
    THEN Out("AccountNotInitialized", FALSE, cfg, tok)
    ELSE
    LET c == cfg[ConfigPda]
        \* player_token_account: init_if_needed
        tok1 == IF player \in DOMAIN tok THEN tok ELSE Put(tok, player, U64(0))
        chk == mine_cap_check(c.total_mined, amount, c.max_supply)
        minted == spl_mint_to(tok1, player, amount)
        sum == checked_add(c.total_mined, amount)
    IN  IF mint # c.mint THEN Out("InvalidMint", FALSE, cfg, tok)
        ELSE IF chk # "Ok" THEN Out(chk, FALSE, cfg, tok)
        ELSE IF ~IsSome(minted) THEN Out("TokenProgramError", TRUE, cfg, tok)
        ELSE IF ~IsSome(sum) THEN Out("ArithmeticOverflow", TRUE, cfg, tok)
        ELSE Out("Ok", TRUE,
                 [cfg EXCEPT ![ConfigPda].total_mined = Unwrap(sum)],
                 Unwrap(minted))

\* faulty variant: a burn is also taken off total_mined
burn_tokens_nets_mined(cfg, tok, player, holder, mint, amount) ==
    IF ConfigPda \notin DOMAIN cfg \/ holder \notin DOMAIN tok
    THEN Out("AccountNotInitialized", FALSE, cfg, tok)
    ELSE
    LET c == cfg[ConfigPda]
        burned == spl_burn(tok, holder, amount)
        sum == checked_add(c.total_burned, amount)
    IN  IF mint # c.mint THEN Out("InvalidMint", FALSE, cfg, tok)
        ELSE IF holder # player THEN Out("InvalidTokenAccount", FALSE, cfg, tok)
        ELSE IF ~IsSome(burned) THEN Out("TokenProgramError", TRUE, cfg, tok)
        ELSE IF ~IsSome(sum) THEN Out("ArithmeticOverflow", TRUE, cfg, tok)
        ELSE Out("Ok", TRUE,
                 [cfg EXCEPT ![ConfigPda].total_burned = Unwrap(sum),
                             ![ConfigPda].total_mined = Sub(@, amount)],
                 Unwrap(burned))

\* faulty variant: only the ledger authority may burn
burn_tokens_authority_only(cfg, tok, player, holder, mint, amount) ==
    IF ConfigPda \notin DOMAIN cfg \/ holder \notin DOMAIN tok
    THEN Out("AccountNotInitialized", FALSE, cfg, tok)
    ELSE
    LET c == cfg[ConfigPda]
        burned == spl_burn(tok, holder, amount)
        sum == checked_add(c.total_burned, amount)
    IN  IF mint # c.mint THEN Out("InvalidMint", FALSE, cfg, tok)
        ELSE IF holder # player THEN Out("InvalidTokenAccount", FALSE, cfg, tok)
        ELSE IF player # c.mint_authority THEN Out("Unauthorized", FALSE, cfg, tok)
        ELSE IF ~IsSome(burned) THEN Out("TokenProgramError", TRUE, cfg, tok)
        ELSE IF ~IsSome(sum) THEN Out("ArithmeticOverflow", TRUE, cfg, tok)
        ELSE Out("Ok", TRUE,
                 [cfg EXCEPT ![ConfigPda].total_burned = Unwrap(sum)],
                 Unwrap(burned))

burn_tokens(cfg, tok, player, holder, mint, amount) ==
    IF ConfigPda \notin DOMAIN cfg \/ holder \notin DOMAIN tok
    THEN Out("AccountNotInitialized", FALSE, cfg, tok)
    ELSE
    LET c == cfg[ConfigPda]
        burned == spl_burn(tok, holder, amount)
        sum == checked_add(c.total_burned, amount)
    IN  IF mint # c.mint THEN Out("InvalidMint", FALSE, cfg, tok)
        ELSE IF holder # player THEN Out("InvalidTokenAccount", FALSE, cfg, tok)
        ELSE IF ~IsSome(burned) THEN Out("TokenProgramError", TRUE, cfg, tok)
        ELSE IF ~IsSome(sum) THEN Out("ArithmeticOverflow", TRUE, cfg, tok)
        ELSE Out("Ok", TRUE,
                 [cfg EXCEPT ![ConfigPda].total_burned = Unwrap(sum)],
                 Unwrap(burned))

\* faulty variant: the authority constraint is missing
UpdateAuthorityConstraint_missing(c, authority) == TRUE

\* the `constraint = config.mint_authority == authority.key()` of UpdateAuthority
UpdateAuthorityConstraint(c, authority) == c.mint_authority = authority

update_authority(cfg, tok, authority, new_authority) ==
    IF ConfigPda \notin DOMAIN cfg
    THEN Out("AccountNotInitialized", FALSE, cfg, tok)
    ELSE IF ~UpdateAuthorityConstraint(cfg[ConfigPda], authority)
    THEN Out("Unauthorized", FALSE, cfg, tok)
    ELSE Out("Ok", FALSE, [cfg EXCEPT ![ConfigPda].mint_authority = new_authority], tok)

\* faulty variant: a new cap equal to the current one is rejected
max_supply_check_strict(current, new_max_supply) ==
    IF IsSome(new_max_supply) /\ IsSome(current)
       /\ ~Lt(Unwrap(current), Unwrap(new_max_supply))
    THEN "CannotDecreaseMaxSupply"
    ELSE "Ok"

\* the body of update_max_supply: "Ok" or the error it raises
max_supply_check(current, new_max_supply) ==
    IF IsSome(new_max_supply) /\ IsSome(current)
       /\ ~Le(Unwrap(current), Unwrap(new_max_supply))
    THEN "CannotDecreaseMaxSupply"
    ELSE "Ok"

update_max_supply(cfg, tok, authority, new_max_supply) ==
    IF ConfigPda \notin DOMAIN cfg
    THEN Out("AccountNotInitialized", FALSE, cfg, tok)
    ELSE IF ~UpdateAuthorityConstraint(cfg[ConfigPda], authority)
    THEN Out("Unauthorized", FALSE, cfg, tok)
    ELSE LET chk == max_supply_check(cfg[ConfigPda].max_supply, new_max_supply) IN
         IF chk # "Ok" THEN Out(chk, FALSE, cfg, tok)
         ELSE Out("Ok", FALSE, [cfg EXCEPT ![ConfigPda].max_supply = new_max_supply], tok)

\* history of the cap: the highest value max_supply has been set to
CapHigh(h, cfg) ==
    IF ConfigPda \in DOMAIN cfg /\ IsSome(cfg[ConfigPda].max_supply)
       /\ Lt(h, Unwrap(cfg[ConfigPda].max_supply))
    THEN Unwrap(cfg[ConfigPda].max_supply)
    ELSE h

\* the runtime applies what the booty handler returned
BootyApply(ix, out) ==
    /\ config' = out.config
    /\ token_account' = out.token_account
    /\ cap_high' = CapHigh(cap_high, out.config)
    /\ result' = Res(ix, out.err, out.cpi)
    /\ UNCHANGED <<scope, tier_call, clock, gameVaultVars, tdVars, asset_account,
                   search_record, gameBootyVars, nftVars>>

InitializeTx(authority, max_supply) ==
    BootyApply("initialize",
               initialize(config, token_account, authority, BootyMintKey, max_supply))

MineTokensTx(payer, player, mint, amount) ==
    BootyApply("mine_tokens", mine_tokens(config, token_account, player, mint, amount))

BurnTokensTx(player, holder, mint, amount) ==
    BootyApply("burn_tokens",
               burn_tokens(config, token_account, player, holder, mint, amount))

UpdateAuthorityTx(authority, new_authority) ==
    BootyApply("update_authority",
               update_authority(config, token_account, authority, new_authority))

UpdateMaxSupplyTx(authority, new_max_supply) ==
    BootyApply("update_max_supply",
               update_max_supply(config, token_account, authority, new_max_supply))

Initialize ==
    \E authority \in Keys, max_supply \in RunCaps : InitializeTx(authority, max_supply)

MineTokens ==
    \E payer \in Keys, player \in Keys, mint \in MintKeys, amount \in RunAmounts :
        MineTokensTx(payer, player, mint, amount)

BurnTokens ==
    \E player \in Keys, holder \in Keys, mint \in MintKeys, amount \in RunAmounts :
        BurnTokensTx(player, holder, mint, amount)

UpdateAuthority ==
    \E authority \in Keys, new_authority \in Keys :
        UpdateAuthorityTx(authority, new_authority)

UpdateMaxSupply ==
    \E authority \in Keys, new_max_supply \in RunCaps :
        UpdateMaxSupplyTx(authority, new_max_supply)

\* ==================================================================
\* token program: transfers between token accounts
\* ==================================================================

\* The token accounts of the token program, by mint and owner:
\* tok[mint][owner] is the amount held.  They are the BOOTY accounts of the
\* booty program, the $BOOTY accounts of the game program and the accounts of
\* the asset mints.
TokenStore(booty, game_booty, assets) ==
    [m \in Mints |-> IF m = BootyMintKey THEN booty
                     ELSE IF m = GameBootyMintKey THEN game_booty
                     ELSE assets[m]]

\* the token account `a` exists
TokenAccountExists(tok, a) == a[1] \in DOMAIN tok /\ a[2] \in DOMAIN tok[a[1]]

\* faulty variant: the destination is credited and the source is not debited
spl_transfer_no_debit(tok, from, to, authority, amount) ==
    IF Lt(tok[from[1]][from[2]], amount) \/ from[1] # to[1] \/ from[2] # authority
    THEN None
    ELSE Some([tok EXCEPT ![to[1]][to[2]] = Add(@, amount)])

\* token::transfer of `amount` from the account `from` to the account `to`,
\* signed by `authority`: None when the token program rejects it
\* (InsufficientFunds, MintMismatch, OwnerMismatch, Overflow).  A transfer of
\* an account to itself, or of 0, is accepted and moves nothing.
spl_transfer(tok, from, to, authority, amount) ==
    IF Lt(tok[from[1]][from[2]], amount) \/ from[1] # to[1] \/ from[2] # authority
    THEN None
    ELSE IF from = to \/ amount = U64(0)
    THEN Some(tok)
    ELSE IF ~IsSome(checked_add(tok[to[1]][to[2]], amount))
    THEN None
    ELSE Some([[tok EXCEPT ![from[1]][from[2]] = Sub(@, amount)]
                    EXCEPT ![to[1]][to[2]] = Add(@, amount)])

\* ==================================================================
\* game program: treasure vault
\* ==================================================================

\* faulty variant: every deposit is classified one tier too high
tier_of_tokens_shifted(tokens) ==
    IF Le(U64(100000), tokens) THEN 4
    ELSE IF Le(U64(10000), tokens) THEN 4
    ELSE IF Le(U64(1000), tokens) THEN 3
    ELSE 2

\* the band of a whole-token count
tier_of_tokens(tokens) ==
    IF Le(U64(100000), tokens) THEN 4
    ELSE IF Le(U64(10000), tokens) THEN 3
    ELSE IF Le(U64(1000), tokens) THEN 2
    ELSE 1

\* let tokens = amount / 1_000_000
calculate_tier(amount) == tier_of_tokens(DivBase(amount))

\* the amount of `whole` tokens and `rest` base units, whole * 1_000_000 + rest
TokenAmount(whole, rest) == Add(<<0, whole \div Base, whole % Base, 0>>, U64(rest))

\* amounts calculate_tier is called with: around every band boundary, and the
\* ends of the u64 range
TierWholes == {0, 1, 99, 100, 500, 999, 1000, 5000, 9999, 10000, 50000, 99999, 100000,
               100001, 18446744, 2000000000}
TierRests == {0, 1, 999999, 1000000, 99999999, 100000000, 999999999, 1000000000, 2147483647}
TierAmounts ==
    {TokenAmount(whole, rest) : whole \in TierWholes, rest \in TierRests}
        \cup {Half, Sub(U64_MAX, U64(1)), U64_MAX}

\* one call of calculate_tier
CalculateTierTx(amount) ==
    /\ tier_call' = Some([amount |-> amount, tier |-> calculate_tier(amount)])
    /\ result' = Res("calculate_tier", "Ok", FALSE)
    /\ UNCHANGED <<scope, clock, bootyVars, gameVaultVars, tdVars, asset_account,
                   search_record, gameBootyVars, nftVars>>

CalculateTier == \E amount \in TierAmounts : CalculateTierTx(amount)

\* the outcome of a vault handler (of either vault program): the error, whether
\* token::transfer was invoked, and the vault, the records, the token accounts
\* and the whitelist as the transaction leaves them
VOut(err, cpi, v, recs, tok, wl) ==
    [err |-> err, cpi |-> cpi, vault |-> v, records |-> recs, tokens |-> tok, whitelist |-> wl]

initialize_vault(v, recs, tok, wl, authority) ==
    IF VaultPda \in DOMAIN v
    THEN VOut("AccountAlreadyInUse", FALSE, v, recs, tok, wl)
    ELSE VOut("Ok", FALSE,
              Put(v, VaultPda,
                  [authority |-> authority, total_hidden |-> U64(0), total_claimed |-> U64(0)]),
              recs, tok, wl)

\* faulty variant: the minimum is exclusive
hide_amount_ok_exclusive(amount) == Lt(MIN_DEPOSIT, amount)

\* require!(amount >= 100_000_000, InsufficientTreasure)
hide_amount_ok(amount) == Le(MIN_DEPOSIT, amount)

\* faulty variant: `init_if_needed` instead of `init`: an existing record is reused
treasure_record_init_if_needed(recs, player, treasure_id) == TRUE

\* faulty variant: the address is derived from the nonce alone
treasure_record_init_nonce_only(recs, player, treasure_id) ==
    \A k \in DOMAIN recs : k[2] # treasure_id

\* `init` of treasure_record: the address [b"treasure", player, treasure_id] must be free
treasure_record_init(recs, player, treasure_id) == <<player, treasure_id>> \notin DOMAIN recs

\* faulty variant: the total is written from a stale read (a lost update)
hide_record_lost_update(v, recs, tok, moved, wl, player, amount, treasure_id) ==
    LET rec == [player |-> player, amount |-> amount, timestamp |-> treasure_id,
                claimed |-> FALSE, tier |-> calculate_tier(amount)]
    IN  VOut("Ok", TRUE,
             [v EXCEPT ![VaultPda].total_hidden = amount],
             Put(recs, <<player, treasure_id>>, rec),
             moved, wl)

\* hide_treasure after token::transfer has turned the token accounts `tok`
\* into `moved`: the record is written, the tier computed and total_hidden
\* raised (checked_add(..).unwrap()); the panic of unwrap() aborts the
\* transaction, the transfer included
hide_record(v, recs, tok, moved, wl, player, amount, treasure_id) ==
    LET rec == [player |-> player, amount |-> amount, timestamp |-> treasure_id,
                claimed |-> FALSE, tier |-> calculate_tier(amount)]
        sum == checked_add(v[VaultPda].total_hidden, amount)
    IN  IF ~IsSome(sum)
        THEN VOut("Panic", TRUE, v, recs, tok, wl)
        ELSE VOut("Ok", TRUE,
                  [v EXCEPT ![VaultPda].total_hidden = Unwrap(sum)],
                  Put(recs, <<player, treasure_id>>, rec),
                  moved, wl)

\* faulty variant: the source account is not required to belong to the player
HideTreasureSource_missing(from, player) == TRUE

\* `constraint = player_token_account.owner == player.key() @ InvalidTokenAccount`
HideTreasureSource(from, player) == from[2] = player

\* hide_treasure; `from` is the player_token_account and `to` the
\* vault_token_account passed in, any two token accounts that exist
hide_treasure(v, recs, tok, wl, player, from, to, amount, treasure_id) ==
    IF ~TokenAccountExists(tok, from) \/ ~TokenAccountExists(tok, to)
       \/ VaultPda \notin DOMAIN v
    THEN VOut("AccountNotInitialized", FALSE, v, recs, tok, wl)
    ELSE IF ~treasure_record_init(recs, player, treasure_id)
    THEN VOut("AccountAlreadyInUse", FALSE, v, recs, tok, wl)
    ELSE IF ~HideTreasureSource(from, player)
    THEN VOut("InvalidTokenAccount", FALSE, v, recs, tok, wl)
    ELSE IF ~hide_amount_ok(amount)
    THEN VOut("InsufficientTreasure", FALSE, v, recs, tok, wl)
    ELSE LET moved == spl_transfer(tok, from, to, player, amount) IN
         IF ~IsSome(moved)
         THEN VOut("TokenProgramError", TRUE, v, recs, tok, wl)
         ELSE hide_record(v, recs, tok, Unwrap(moved), wl, player, amount, treasure_id)

\* faulty variant: the depositor constraint is missing
ClaimTreasureOwner_missing(rec, player) == TRUE

\* `constraint = treasure_record.player == player.key() @ Unauthorized`
ClaimTreasureOwner(rec, player) == rec.player = player

\* faulty variant: the claimed flag is not checked
ClaimTreasureUnclaimed_missing(rec) == TRUE

\* `constraint = !treasure_record.claimed @ AlreadyClaimed` and the same require!
ClaimTreasureUnclaimed(rec) == ~rec.claimed

\* claim_treasure on the record at address `key`
claim_treasure(v, recs, tok, wl, player, key) ==
    IF VaultPda \notin DOMAIN v \/ key \notin DOMAIN recs
    THEN VOut("AccountNotInitialized", FALSE, v, recs, tok, wl)
    ELSE IF ~ClaimTreasureOwner(recs[key], player)
    THEN VOut("Unauthorized", FALSE, v, recs, tok, wl)
    ELSE IF ~ClaimTreasureUnclaimed(recs[key])
    THEN VOut("AlreadyClaimed", FALSE, v, recs, tok, wl)
    ELSE LET sum == checked_add(v[VaultPda].total_claimed, U64(1)) IN
         IF ~IsSome(sum)
         THEN VOut("Panic", FALSE, v, recs, tok, wl)
         ELSE VOut("Ok", FALSE,
                   [v EXCEPT ![VaultPda].total_claimed = Unwrap(sum)],
                   [recs EXCEPT ![key].claimed = TRUE],
                   tok, wl)

\* faulty variant: the authority constraint of UpdateVault is missing
update_vault_any_signer(v, recs, tok, wl, authority, new_authority) ==
    IF VaultPda \notin DOMAIN v
    THEN VOut("AccountNotInitialized", FALSE, v, recs, tok, wl)
    ELSE IF IsSome(new_authority)
    THEN VOut("Ok", FALSE, [v EXCEPT ![VaultPda].authority = Unwrap(new_authority)], recs, tok, wl)
    ELSE VOut("Ok", FALSE, v, recs, tok, wl)

update_vault(v, recs, tok, wl, authority, new_authority) ==
    IF VaultPda \notin DOMAIN v
    THEN VOut("AccountNotInitialized", FALSE, v, recs, tok, wl)
    ELSE IF v[VaultPda].authority # authority
    THEN VOut("Unauthorized", FALSE, v, recs, tok, wl)
    ELSE IF IsSome(new_authority)
    THEN VOut("Ok", FALSE, [v EXCEPT ![VaultPda].authority = Unwrap(new_authority)], recs, tok, wl)
    ELSE VOut("Ok", FALSE, v, recs, tok, wl)

\* whitelist_token; `token_mint` is the instruction argument and `mint_account`
\* the token_mint account whose key seeds the whitelist address
whitelist_token(v, recs, tok, wl, authority, token_mint, mint_account) ==
    IF VaultPda \notin DOMAIN v
    THEN VOut("AccountNotInitialized", FALSE, v, recs, tok, wl)
    ELSE IF mint_account \in DOMAIN wl
    THEN VOut("AccountAlreadyInUse", FALSE, v, recs, tok, wl)
    ELSE IF v[VaultPda].authority # authority
    THEN VOut("Unauthorized", FALSE, v, recs, tok, wl)
    ELSE VOut("Ok", FALSE, v, recs, tok,
              Put(wl, mint_account, [token_mint |-> token_mint, enabled |-> TRUE]))

\* the token accounts an instruction may be handed
Tokens == TokenStore(token_account, player_booty_account, asset_account)

\* the runtime applies what the vault handler returned
GameVaultApply(ix, out) ==
    /\ vault' = out.vault
    /\ treasure_record' = out.records
    /\ token_account' = out.tokens[BootyMintKey]
    /\ player_booty_account' = out.tokens[GameBootyMintKey]
    /\ asset_account' = [m \in AssetMints |-> out.tokens[m]]
    /\ whitelist' = out.whitelist
    /\ result' = Res(ix, out.err, out.cpi)
    /\ UNCHANGED <<scope, tier_call, clock, config, cap_high, tdVars, search_record,
                   booty_state, nftVars>>

InitializeVaultTx(authority) ==
    /\ GameVaultApply("initialize_vault",
           initialize_vault(vault, treasure_record, Tokens, whitelist, authority))

HideTreasureTx(player, from, to, amount, treasure_id) ==
    /\ GameVaultApply("hide_treasure",
           hide_treasure(vault, treasure_record, Tokens, whitelist,
                         player, from, to, amount, treasure_id))

ClaimTreasureTx(player, key) ==
    /\ GameVaultApply("claim_treasure",
           claim_treasure(vault, treasure_record, Tokens, whitelist, player, key))

UpdateVaultTx(authority, new_authority) ==
    /\ GameVaultApply("update_vault",
           update_vault(vault, treasure_record, Tokens, whitelist,
                        authority, new_authority))

WhitelistTokenTx(authority, token_mint, mint_account) ==
    /\ GameVaultApply("whitelist_token",
           whitelist_token(vault, treasure_record, Tokens, whitelist,
                           authority, token_mint, mint_account))

InitializeVault == \E authority \in Keys : InitializeVaultTx(authority)

HideTreasure ==
    \E player \in Keys, from \in SourceAccounts, to \in DestinationAccounts,
       amount \in RunDeposits, treasure_id \in RunIds :
        HideTreasureTx(player, from, to, amount, treasure_id)

ClaimTreasure ==
    \E player \in Keys, key \in Keys \X RunIds : ClaimTreasureTx(player, key)

UpdateVault ==
    \E authority \in Keys, new_authority \in OptKeys :
        UpdateVaultTx(authority, new_authority)

WhitelistToken ==
    \E authority \in Keys, token_mint \in AssetMints, mint_account \in AssetMints :
        WhitelistTokenTx(authority, token_mint, mint_account)

\* ==================================================================
\* treasure_deposit program
\* ==================================================================

td_initialize(v, recs, tok, wl, authority) ==
    IF VaultPda \in DOMAIN v
    THEN VOut("AccountAlreadyInUse", FALSE, v, recs, tok, wl)
    ELSE VOut("Ok", FALSE,
              Put(v, VaultPda,
                  [authority |-> authority, total_deposits |-> U64(0),
                   total_monsters_minted |-> U64(0)]),
              recs, tok, wl)

\* faulty variant: the minimum is exclusive
deposit_amount_ok_exclusive(amount) == Lt(MIN_DEPOSIT, amount)

\* require!(amount >= 100_000_000, InsufficientDeposit)
deposit_amount_ok(amount) == Le(MIN_DEPOSIT, amount)

\* ((amount / 100_000_000) % 5) as u8
monster_type_of(amount) == ModSmall(DivSmall(DivBase(amount), 100), 5)

\* faulty variant: `init_if_needed` instead of `init`: an existing record is reused
deposit_record_init_if_needed(recs, player, now) == TRUE

\* `init` of deposit_record: the address [b"deposit", player, unix_timestamp] must be free
deposit_record_init(recs, player, now) == <<player, now>> \notin DOMAIN recs

\* faulty variant: the source account is not required to belong to the player
DepositForMonsterSource_missing(from, player) == TRUE

\* `constraint = player_token_account.owner == player.key() @ InvalidTokenAccount`
DepositForMonsterSource(from, player) == from[2] = player

\* deposit_for_monster at host time `now`; `from` is the player_token_account
\* and `to` the vault_token_account passed in, any two token accounts that exist
deposit_for_monster(v, recs, tok, wl, player, from, to, amount, now) ==
    IF ~TokenAccountExists(tok, from) \/ ~TokenAccountExists(tok, to)
       \/ VaultPda \notin DOMAIN v
    THEN VOut("AccountNotInitialized", FALSE, v, recs, tok, wl)
    ELSE IF ~deposit_record_init(recs, player, now)
    THEN VOut("AccountAlreadyInUse", FALSE, v, recs, tok, wl)
    ELSE IF ~DepositForMonsterSource(from, player)
    THEN VOut("InvalidTokenAccount", FALSE, v, recs, tok, wl)
    ELSE IF ~deposit_amount_ok(amount)
    THEN VOut("InsufficientDeposit", FALSE, v, recs, tok, wl)
    ELSE
    LET moved == spl_transfer(tok, from, to, player, amount)
        rec == [player |-> player, amount |-> amount, timestamp |-> now,
                claimed |-> FALSE, monster_type |-> monster_type_of(amount)]
        sum == checked_add(v[VaultPda].total_deposits, amount)
    IN  IF ~IsSome(moved)
        THEN VOut("TokenProgramError", TRUE, v, recs, tok, wl)
        ELSE IF ~IsSome(sum)
        THEN VOut("Panic", TRUE, v, recs, tok, wl)
        ELSE VOut("Ok", TRUE,
                  [v EXCEPT ![VaultPda].total_deposits = Unwrap(sum)],
                  Put(recs, <<player, now>>, rec),
                  Unwrap(moved), wl)

\* faulty variant: the depositor constraint is missing
ClaimMonsterOwner_missing(rec, player) == TRUE

\* `constraint = deposit_record.player == player.key() @ Unauthorized`
ClaimMonsterOwner(rec, player) == rec.player = player

\* faulty variant: the claimed flag is not checked
ClaimMonsterUnclaimed_missing(rec) == TRUE

\* `constraint = !deposit_record.claimed @ AlreadyClaimed` and the same require!
ClaimMonsterUnclaimed(rec) == ~rec.claimed

\* faulty variant: the record is marked claimed and the counter is left as it was
claim_monster_uncounted(v, recs, tok, wl, player, key) ==
    IF VaultPda \notin DOMAIN v \/ key \notin DOMAIN recs
    THEN VOut("AccountNotInitialized", FALSE, v, recs, tok, wl)
    ELSE IF ~ClaimMonsterOwner(recs[key], player)
    THEN VOut("Unauthorized", FALSE, v, recs, tok, wl)
    ELSE IF ~ClaimMonsterUnclaimed(recs[key])
    THEN VOut("AlreadyClaimed", FALSE, v, recs, tok, wl)
    ELSE VOut("Ok", FALSE, v, [recs EXCEPT ![key].claimed = TRUE], tok, wl)

claim_monster(v, recs, tok, wl, player, key) ==
    IF VaultPda \notin DOMAIN v \/ key \notin DOMAIN recs
    THEN VOut("AccountNotInitialized", FALSE, v, recs, tok, wl)
    ELSE IF ~ClaimMonsterOwner(recs[key], player)
    THEN VOut("Unauthorized", FALSE, v, recs, tok, wl)
    ELSE IF ~ClaimMonsterUnclaimed(recs[key])
    THEN VOut("AlreadyClaimed", FALSE, v, recs, tok, wl)
    ELSE LET sum == checked_add(v[VaultPda].total_monsters_minted, U64(1)) IN
         IF ~IsSome(sum)
         THEN VOut("Panic", FALSE, v, recs, tok, wl)
         ELSE VOut("Ok", FALSE,
                   [v EXCEPT ![VaultPda].total_monsters_minted = Unwrap(sum)],
                   [recs EXCEPT ![key].claimed = TRUE],
                   tok, wl)

\* faulty variant: a second call on a token mint switches its entry off
td_whitelist_token_toggles(v, recs, tok, wl, authority, token_mint, mint_account) ==
    IF VaultPda \notin DOMAIN v
    THEN VOut("AccountNotInitialized", FALSE, v, recs, tok, wl)
    ELSE IF v[VaultPda].authority # authority
    THEN VOut("Unauthorized", FALSE, v, recs, tok, wl)
    ELSE IF mint_account \in DOMAIN wl
    THEN VOut("Ok", FALSE, v, recs, tok, [wl EXCEPT ![mint_account].enabled = ~@])
    ELSE VOut("Ok", FALSE, v, recs, tok,
              Put(wl, mint_account, [token_mint |-> token_mint, enabled |-> TRUE]))

td_whitelist_token(v, recs, tok, wl, authority, token_mint, mint_account) ==
    IF VaultPda \notin DOMAIN v
    THEN VOut("AccountNotInitialized", FALSE, v, recs, tok, wl)
    ELSE IF mint_account \in DOMAIN wl
    THEN VOut("AccountAlreadyInUse", FALSE, v, recs, tok, wl)
    ELSE IF v[VaultPda].authority # authority
    THEN VOut("Unauthorized", FALSE, v, recs, tok, wl)
    ELSE VOut("Ok", FALSE, v, recs, tok,
              Put(wl, mint_account, [token_mint |-> token_mint, enabled |-> TRUE]))

td_update_vault(v, recs, tok, wl, authority, new_authority) ==
    IF VaultPda \notin DOMAIN v
    THEN VOut("AccountNotInitialized", FALSE, v, recs, tok, wl)
    ELSE IF v[VaultPda].authority # authority
    THEN VOut("Unauthorized", FALSE, v, recs, tok, wl)
    ELSE IF IsSome(new_authority)
    THEN VOut("Ok", FALSE, [v EXCEPT ![VaultPda].authority = Unwrap(new_authority)],
              recs, tok, wl)
    ELSE VOut("Ok", FALSE, v, recs, tok, wl)

\* the runtime applies what the treasure_deposit handler returned
TdApply(ix, out) ==
    /\ td_vault' = out.vault
    /\ deposit_record' = out.records
    /\ token_account' = out.tokens[BootyMintKey]
    /\ player_booty_account' = out.tokens[GameBootyMintKey]
    /\ asset_account' = [m \in AssetMints |-> out.tokens[m]]
    /\ td_whitelist' = out.whitelist
    /\ result' = Res(ix, out.err, out.cpi)
    /\ UNCHANGED <<scope, tier_call, clock, config, cap_high, gameVaultVars, search_record,
                   booty_state, nftVars>>

TdInitializeTx(authority) ==
    /\ TdApply("td_initialize",
           td_initialize(td_vault, deposit_record, Tokens, td_whitelist, authority))

DepositForMonsterTx(player, from, to, amount) ==
    /\ TdApply("deposit_for_monster",
           deposit_for_monster(td_vault, deposit_record, Tokens, td_whitelist,
                               player, from, to, amount, clock))

ClaimMonsterTx(player, key) ==
    /\ TdApply("claim_monster",
           claim_monster(td_vault, deposit_record, Tokens, td_whitelist, player, key))

TdUpdateVaultTx(authority, new_authority) ==
    /\ TdApply("td_update_vault",
           td_update_vault(td_vault, deposit_record, Tokens, td_whitelist,
                           authority, new_authority))

TdWhitelistTokenTx(authority, token_mint, mint_account) ==
    /\ TdApply("td_whitelist_token",
           td_whitelist_token(td_vault, deposit_record, Tokens, td_whitelist,
                              authority, token_mint, mint_account))

TdInitialize == \E authority \in Keys : TdInitializeTx(authority)

DepositForMonster ==
    \E player \in Keys, from \in SourceAccounts, to \in DestinationAccounts,
       amount \in RunDeposits :
        DepositForMonsterTx(player, from, to, amount)

ClaimMonster ==
    \E player \in Keys, key \in Keys \X (0..MaxClock) : ClaimMonsterTx(player, key)

TdUpdateVault ==
    \E authority \in Keys, new_authority \in OptKeys :
        TdUpdateVaultTx(authority, new_authority)

TdWhitelistToken ==
    \E authority \in Keys, token_mint \in AssetMints, mint_account \in AssetMints :
        TdWhitelistTokenTx(authority, token_mint, mint_account)

\* the host clock advances between transactions, at any time
Tick ==
    /\ clock < MaxClock
    /\ clock' = clock + 1
    /\ result' = Res("tick", "Ok", FALSE)
    /\ UNCHANGED <<scope, tier_call, bootyVars, gameVaultVars, tdVars, asset_account,
                   search_record, gameBootyVars, nftVars>>

\* ==================================================================
\* game program: treasure search
\* ==================================================================

\* faulty variant: `init_if_needed` instead of `init`: an existing record is reused
search_record_init_if_needed(recs, player, search_id) == TRUE

\* `init` of search_record: the address [b"search", player, search_id] must be free
search_record_init(recs, player, search_id) == <<player, search_id>> \notin DOMAIN recs

\* the outcome of search_treasure
SOut(err, recs) == [err |-> err, cpi |-> FALSE, search_record |-> recs]

search_treasure(recs, player, x, y, search_id) ==
    IF ~search_record_init(recs, player, search_id)
    THEN SOut("AccountAlreadyInUse", recs)
    ELSE SOut("Ok",
              Put(recs, <<player, search_id>>,
                  [player |-> player, x |-> x, y |-> y,
                   timestamp |-> search_id, found |-> FALSE]))

SearchTreasureTx(player, x, y, search_id) ==
    /\ LET out == search_treasure(search_record, player, x, y, search_id) IN
       /\ search_record' = out.search_record
       /\ result' = Res("search_treasure", out.err, out.cpi)
    /\ UNCHANGED <<scope, tier_call, clock, bootyVars, gameVaultVars, tdVars, asset_account,
                   gameBootyVars, nftVars>>

SearchTreasure ==
    \E player \in Keys, x \in RunCoords, y \in RunCoords, search_id \in RunIds :
        SearchTreasureTx(player, x, y, search_id)

\* ==================================================================
\* game program: $BOOTY token
\* ==================================================================

\* the outcome of a $BOOTY handler of the game program
GOut(err, cpi, bs, tok) == [err |-> err, cpi |-> cpi, booty_state |-> bs, accounts |-> tok]

initialize_booty_mint(bs, tok, authority, mint, max_supply) ==
    IF BootyStatePda \in DOMAIN bs
    THEN GOut("AccountAlreadyInUse", FALSE, bs, tok)
    ELSE GOut("Ok", FALSE,
              Put(bs, BootyStatePda,
                  [mint |-> mint, authority |-> authority,
                   total_mined |-> U64(0), total_burned |-> U64(0),
                   max_supply |-> max_supply]),
              tok)

\* the max-supply check of mine_booty: "Ok" or the error it raises
mine_booty_cap_check(total_mined, amount, max_supply) ==
    IF IsSome(max_supply)
    THEN LET new_total == checked_add(total_mined, amount) IN
         IF ~IsSome(new_total) THEN "ArithmeticOverflow"
         ELSE IF ~Le(Unwrap(new_total), Unwrap(max_supply)) THEN "MaxSupplyExceeded"
         ELSE "Ok"
    ELSE "Ok"

\* faulty variant: only the stored authority may mint
mine_booty_authority_only(bs, tok, player, mint, amount) ==
    IF BootyStatePda \notin DOMAIN bs
    THEN GOut("AccountNotInitialized", FALSE, bs, tok)
    ELSE
    LET b == bs[BootyStatePda]
        tok1 == IF player \in DOMAIN tok THEN tok ELSE Put(tok, player, U64(0))
        chk == mine_booty_cap_check(b.total_mined, amount, b.max_supply)
        minted == spl_mint_to(tok1, player, amount)
        sum == checked_add(b.total_mined, amount)
    IN  IF mint # b.mint THEN GOut("InvalidBootyMint", FALSE, bs, tok)
        ELSE IF player # b.authority THEN GOut("Unauthorized", FALSE, bs, tok)
        ELSE IF chk # "Ok" THEN GOut(chk, FALSE, bs, tok)
        ELSE IF ~IsSome(minted) THEN GOut("TokenProgramError", TRUE, bs, tok)
        ELSE IF ~IsSome(sum) THEN GOut("ArithmeticOverflow", TRUE, bs, tok)
        ELSE GOut("Ok", TRUE,
                  [bs EXCEPT ![BootyStatePda].total_mined = Unwrap(sum)],
                  Unwrap(minted))

mine_booty(bs, tok, player, mint, amount) ==
    IF BootyStatePda \notin DOMAIN bs
    THEN GOut("AccountNotInitialized", FALSE, bs, tok)
    ELSE
    LET b == bs[BootyStatePda]
        \* player_booty_account: init_if_needed
        tok1 == IF player \in DOMAIN tok THEN tok ELSE Put(tok, player, U64(0))
        chk == mine_booty_cap_check(b.total_mined, amount, b.max_supply)
        minted == spl_mint_to(tok1, player, amount)
        sum == checked_add(b.total_mined, amount)
    IN  IF mint # b.mint THEN GOut("InvalidBootyMint", FALSE, bs, tok)
        ELSE IF chk # "Ok" THEN GOut(chk, FALSE, bs, tok)
        ELSE IF ~IsSome(minted) THEN GOut("TokenProgramError", TRUE, bs, tok)
        ELSE IF ~IsSome(sum) THEN GOut("ArithmeticOverflow", TRUE, bs, tok)
        ELSE GOut("Ok", TRUE,
                  [bs EXCEPT ![BootyStatePda].total_mined = Unwrap(sum)],
                  Unwrap(minted))

\* faulty variant: the burn is not counted
burn_booty_for_travel_uncounted(bs, tok, player, holder, mint, amount) ==
    IF BootyStatePda \notin DOMAIN bs \/ holder \notin DOMAIN tok
    THEN GOut("AccountNotInitialized", FALSE, bs, tok)
    ELSE
    LET b == bs[BootyStatePda]
        burned == spl_burn(tok, holder, amount)
    IN  IF mint # b.mint THEN GOut("InvalidBootyMint", FALSE, bs, tok)
        ELSE IF holder # player THEN GOut("InvalidTokenAccount", FALSE, bs, tok)
        ELSE IF ~IsSome(burned) THEN GOut("TokenProgramError", TRUE, bs, tok)
        ELSE GOut("Ok", TRUE, bs, Unwrap(burned))

burn_booty_for_travel(bs, tok, player, holder, mint, amount) ==
    IF BootyStatePda \notin DOMAIN bs \/ holder \notin DOMAIN tok
    THEN GOut("AccountNotInitialized", FALSE, bs, tok)
    ELSE
    LET b == bs[BootyStatePda]
        burned == spl_burn(tok, holder, amount)
        sum == checked_add(b.total_burned, amount)
    IN  IF mint # b.mint THEN GOut("InvalidBootyMint", FALSE, bs, tok)
        ELSE IF holder # player THEN GOut("InvalidTokenAccount", FALSE, bs, tok)
        ELSE IF ~IsSome(burned) THEN GOut("TokenProgramError", TRUE, bs, tok)
        ELSE IF ~IsSome(sum) THEN GOut("ArithmeticOverflow", TRUE, bs, tok)
        ELSE GOut("Ok", TRUE,
                  [bs EXCEPT ![BootyStatePda].total_burned = Unwrap(sum)],
                  Unwrap(burned))

\* the runtime applies what the $BOOTY handler returned
GameBootyApply(ix, out) ==
    /\ booty_state' = out.booty_state
    /\ player_booty_account' = out.accounts
    /\ result' = Res(ix, out.err, out.cpi)
    /\ UNCHANGED <<scope, tier_call, clock, bootyVars, gameVaultVars, tdVars, asset_account,
                   search_record, nftVars>>

InitializeBootyMintTx(authority, max_supply) ==
    GameBootyApply("initialize_booty_mint",
        initialize_booty_mint(booty_state, player_booty_account,
                              authority, GameBootyMintKey, max_supply))

MineBootyTx(player, mint, amount) ==
    GameBootyApply("mine_booty",
        mine_booty(booty_state, player_booty_account, player, mint, amount))

BurnBootyForTravelTx(player, holder, mint, amount) ==
    GameBootyApply("burn_booty_for_travel",
        burn_booty_for_travel(booty_state, player_booty_account, player, holder, mint, amount))

InitializeBootyMint ==
    \E authority \in Keys, max_supply \in RunCaps :
        InitializeBootyMintTx(authority, max_supply)

MineBooty ==
    \E player \in Keys, mint \in GameMintKeys, amount \in RunAmounts :
        MineBootyTx(player, mint, amount)

BurnBootyForTravel ==
    \E player \in Keys, holder \in Keys, mint \in GameMintKeys, amount \in RunAmounts :
        BurnBootyForTravelTx(player, holder, mint, amount)

\* The vault owner opens a token account of the mint of a supply ledger with
\* the token program.  None of the programs creates the account
\* hide_treasure and deposit_for_monster take as vault_token_account; it has
\* to exist before the instruction.
OpenVaultAccount ==
    /\ \/ /\ BootyStatePda \in DOMAIN booty_state
          /\ VaultOwner \notin DOMAIN player_booty_account
          /\ player_booty_account' = Put(player_booty_account, VaultOwner, U64(0))
          /\ UNCHANGED token_account
       \/ /\ ConfigPda \in DOMAIN config
          /\ VaultOwner \notin DOMAIN token_account
          /\ token_account' = Put(token_account, VaultOwner, U64(0))
          /\ UNCHANGED player_booty_account
    /\ result' = Res("initialize_account", "Ok", FALSE)
    /\ UNCHANGED <<scope, tier_call, clock, config, cap_high, gameVaultVars, tdVars,
                   asset_account, search_record, booty_state, nftVars>>

\* ==================================================================
\* collectibles: dotty_nft::mint_collectible and game::mint_nft
\* ==================================================================

\* the outcome of a collectible mint
NOut(err, cpi, mints, metas) == [err |-> err, cpi |-> cpi, nft_mint |-> mints, nft_metadata |-> metas]

\* DataV2 and the flags passed to create_metadata_accounts_v3
metadata_data(payer, title, symbol, uri) ==
    [name |-> title, symbol |-> symbol, uri |-> uri,
     seller_fee_basis_points |-> 0, creators |-> None, collection |-> None, uses |-> None,
     is_mutable |-> FALSE, update_authority |-> payer]

\* faulty variant: a recipient who holds a collectible is refused another one
mint_collectible_once(mints, metas, player, payer, mint, metadata, title, symbol, uri) ==
    IF mint \in DOMAIN mints \/ \E m \in DOMAIN mints : mints[m].holder = player
    THEN NOut("AccountAlreadyInUse", FALSE, mints, metas)
    ELSE
    LET minted == Put(mints, mint, [mint_authority |-> payer, supply |-> 1, holder |-> player])
    IN  IF metadata # mint
        THEN NOut("MetadataProgramError", TRUE, mints, metas)
        ELSE NOut("Ok", TRUE, minted,
                  Put(metas, mint, metadata_data(payer, title, symbol, uri)))

\* mint_collectible; `mint` is the new mint account, `metadata` the mint whose
\* metadata address was passed as the metadata account
mint_collectible(mints, metas, player, payer, mint, metadata, title, symbol, uri) ==
    IF mint \in DOMAIN mints
    THEN NOut("AccountAlreadyInUse", FALSE, mints, metas)
    ELSE
    LET minted == Put(mints, mint, [mint_authority |-> payer, supply |-> 1, holder |-> player])
    IN  IF metadata # mint
        THEN NOut("MetadataProgramError", TRUE, mints, metas)
        ELSE NOut("Ok", TRUE, minted,
                  Put(metas, mint, metadata_data(payer, title, symbol, uri)))

\* game::mint_nft: the same two calls
mint_nft(mints, metas, player, payer, mint, metadata, title, symbol, uri) ==
    IF mint \in DOMAIN mints
    THEN NOut("AccountAlreadyInUse", FALSE, mints, metas)
    ELSE
    LET minted == Put(mints, mint, [mint_authority |-> payer, supply |-> 1, holder |-> player])
    IN  IF metadata # mint
        THEN NOut("MetadataProgramError", TRUE, mints, metas)
        ELSE NOut("Ok", TRUE, minted,
                  Put(metas, mint, metadata_data(payer, title, symbol, uri)))

\* the runtime applies what the collectible handler returned
NftApply(ix, out) ==
    /\ nft_mint' = out.nft_mint
    /\ nft_metadata' = out.nft_metadata
    /\ result' = Res(ix, out.err, out.cpi)
    /\ UNCHANGED <<scope, tier_call, clock, bootyVars, gameVaultVars, tdVars, asset_account,
                   search_record, gameBootyVars>>

MintCollectibleTx(player, payer, mint, metadata, title, symbol, uri) ==
    /\ NftApply("mint_collectible",
           mint_collectible(nft_mint, nft_metadata, player, payer, mint, metadata,
                            title, symbol, uri))

MintNftTx(player, payer, mint, metadata, title, symbol, uri) ==
    /\ NftApply("mint_nft",
           mint_nft(nft_mint, nft_metadata, player, payer, mint, metadata, title, symbol, uri))

MintCollectible ==
    \E player \in Keys, payer \in Keys, mint \in NftMintKeys, metadata \in NftMintKeys,
       title \in Titles :
        MintCollectibleTx(player, payer, mint, metadata, title, "DOTTY", "https://dotty/1.json")

MintNft ==
    \E player \in Keys, payer \in Keys, mint \in NftMintKeys, metadata \in NftMintKeys,
       title \in Titles :
        MintNftTx(player, payer, mint, metadata, title, "DOTTY", "https://dotty/1.json")

\* ==================================================================
\* properties of the Supply Ledger (booty program)
\* ==================================================================

LedgerExists == ConfigPda \in DOMAIN config
Ledger == config[ConfigPda]

\* the game program's $BOOTY state account, once initialize_booty_mint has run
BootyStateExists == BootyStatePda \in DOMAIN booty_state
BootyLedger == booty_state[BootyStatePda]

\* C1: whenever max_supply is set, total_mined <= max_supply.
\* (The code lets update_max_supply go from None to a cap below total_mined.)
C1_MinedWithinCap ==
    (LedgerExists /\ IsSome(Ledger.max_supply))
        => Le(Ledger.total_mined, Unwrap(Ledger.max_supply))

\* C2: with max_supply = M and total_mined <= M, a mint of the ledger's own
\* asset whose sum fits in u64 and exceeds M fails with MaxSupplyExceeded and
\* changes neither the ledger record nor any token balance; and no mint step
\* takes total_mined from <= M to > M.  Stated for mine_tokens of the booty
\* program and for mine_booty of the game program.
C2_MintPastCapRejected ==
    [][/\ \A payer \in Keys, player \in Keys, amount \in LedgerAmounts :
         ( /\ result'.ix = "mine_tokens"
           /\ LedgerExists
           /\ IsSome(Ledger.max_supply)
           /\ Le(Ledger.total_mined, Unwrap(Ledger.max_supply))
           /\ MineTokensTx(payer, player, BootyMintKey, amount) )
         => /\ ( /\ Le(Add(Ledger.total_mined, amount), U64_MAX)
                 /\ Lt(Unwrap(Ledger.max_supply), Add(Ledger.total_mined, amount)) )
               => /\ result'.err = "MaxSupplyExceeded"
                  /\ config' = config
                  /\ token_account' = token_account
            /\ Le(config'[ConfigPda].total_mined, Unwrap(Ledger.max_supply))
       /\ \A player \in Keys, amount \in LedgerAmounts :
         ( /\ result'.ix = "mine_booty"
           /\ BootyStateExists
           /\ IsSome(BootyLedger.max_supply)
           /\ Le(BootyLedger.total_mined, Unwrap(BootyLedger.max_supply))
           /\ MineBootyTx(player, GameBootyMintKey, amount) )
         => /\ ( /\ Le(Add(BootyLedger.total_mined, amount), U64_MAX)
                 /\ Lt(Unwrap(BootyLedger.max_supply),
                       Add(BootyLedger.total_mined, amount)) )
               => /\ result'.err = "MaxSupplyExceeded"
                  /\ booty_state' = booty_state
                  /\ player_booty_account' = player_booty_account
            /\ Le(booty_state'[BootyStatePda].total_mined, Unwrap(BootyLedger.max_supply))
      ]_vars

\* C2 witness: a mint was rejected for the cap after an earlier mint had passed
C2_Witness ==
    \/ /\ result.ix = "mine_tokens"
       /\ result.err = "MaxSupplyExceeded"
       /\ Lt(U64(0), Ledger.total_mined)
    \/ /\ result.ix = "mine_booty"
       /\ result.err = "MaxSupplyExceeded"
       /\ Lt(U64(0), BootyLedger.total_mined)

\* C5: update_max_supply by the current authority: a set cap below the set
\* current cap fails with CannotDecreaseMaxSupply and leaves the record as it
\* was; None always succeeds and stores None; a set cap >= the set current cap
\* succeeds and is stored.
C5_UpdateMaxSupply ==
    [][\A authority \in Keys, new_cap \in OptCaps :
         ( /\ result'.ix = "update_max_supply"
           /\ LedgerExists
           /\ authority = Ledger.mint_authority
           /\ UpdateMaxSupplyTx(authority, new_cap) )
         => LET cur == Ledger.max_supply IN
            /\ (IsSome(cur) /\ IsSome(new_cap) /\ Lt(Unwrap(new_cap), Unwrap(cur)))
               => (result'.err = "CannotDecreaseMaxSupply" /\ config' = config)
            /\ (new_cap = None)
               => (result'.err = "Ok" /\ config'[ConfigPda].max_supply = None)
            /\ (IsSome(cur) /\ IsSome(new_cap) /\ Le(Unwrap(cur), Unwrap(new_cap)))
               => (result'.err = "Ok" /\ config'[ConfigPda].max_supply = new_cap)
      ]_vars

\* C5 witness: a lowering of the cap was rejected
C5_Witness ==
    /\ result.ix = "update_max_supply"
    /\ result.err = "CannotDecreaseMaxSupply"
    /\ IsSome(Ledger.max_supply)

\* C6: the cap never goes below a value it had before: whenever max_supply is
\* set it is the highest value it was ever set to.
\* (The code accepts None and then any lower cap.)
C6_CapNeverDecreases ==
    (LedgerExists /\ IsSome(Ledger.max_supply))
        => Le(cap_high, Unwrap(Ledger.max_supply))

\* C10: update_authority and update_max_supply pass the authorization check
\* exactly when the caller is the stored authority; otherwise they fail with
\* Unauthorized and leave the record as it was.  A successful update_authority
\* stores the new authority, and nothing else ever changes the stored authority.
C10_AdminOnlyByAuthority ==
    [][LedgerExists =>
        /\ \A authority \in Keys, new_authority \in Keys :
             (result'.ix = "update_authority" /\ UpdateAuthorityTx(authority, new_authority))
             => IF authority = Ledger.mint_authority
                THEN /\ result'.err = "Ok"
                     /\ config' = [config EXCEPT ![ConfigPda].mint_authority = new_authority]
                ELSE /\ result'.err = "Unauthorized"
                     /\ config' = config
        /\ \A authority \in Keys, new_cap \in OptCaps :
             (result'.ix = "update_max_supply" /\ UpdateMaxSupplyTx(authority, new_cap))
             => IF authority = Ledger.mint_authority
                THEN result'.err # "Unauthorized"
                ELSE /\ result'.err = "Unauthorized"
                     /\ config' = config
        /\ (config'[ConfigPda].mint_authority # Ledger.mint_authority)
             => (result'.ix = "update_authority" /\ result'.err = "Ok")
      ]_vars

\* C10 witness: an administrative call was refused while the ledger holds an
\* authority other than the one it could have been refused for being
C10_Witness ==
    /\ result.ix \in {"update_authority", "update_max_supply"}
    /\ result.err = "Unauthorized"
    /\ LedgerExists

\* ==================================================================
\* properties of the Deposit Vault (game and treasure_deposit programs)
\* ==================================================================

VaultExists == VaultPda \in DOMAIN vault
TdVaultExists == VaultPda \in DOMAIN td_vault
TotalHidden(v) == IF VaultPda \in DOMAIN v THEN v[VaultPda].total_hidden ELSE U64(0)
TotalClaimed(v) == IF VaultPda \in DOMAIN v THEN v[VaultPda].total_claimed ELSE U64(0)
TotalDeposits(v) == IF VaultPda \in DOMAIN v THEN v[VaultPda].total_deposits ELSE U64(0)
TotalMonstersMinted(v) ==
    IF VaultPda \in DOMAIN v THEN v[VaultPda].total_monsters_minted ELSE U64(0)
\* the records of `after` that are claimed and were not claimed in `before`
NewlyClaimed(before, after) ==
    {k \in DOMAIN after : after[k].claimed /\ ~(k \in DOMAIN before /\ before[k].claimed)}
\* the DuplicateDeposit of the specification: the `init` of the record account
\* fails because the address is occupied
DuplicateDeposit == "AccountAlreadyInUse"
\* the token account `a` holds at least `amount`
Funded(tok, a, amount) == Le(amount, tok[a[1]][a[2]])
\* the token program lets the owner of `from` move `amount` to `to`: both
\* accounts exist, they are of the same mint and `from` holds the amount
Payable(tok, from, to, amount) ==
    /\ TokenAccountExists(tok, from)
    /\ TokenAccountExists(tok, to)
    /\ from[1] = to[1]
    /\ Funded(tok, from, amount)
\* `amount` can be added to the u64 counter `total`
Fits(total, amount) == Le(Add(total, amount), U64_MAX)
\* the token accounts `after` are the token accounts `before` with `amount`
\* taken from the account `from` and given to the account `to`
Moved(before, after, from, to, amount) ==
    /\ DOMAIN after = DOMAIN before
    /\ \A m \in DOMAIN before :
          /\ DOMAIN after[m] = DOMAIN before[m]
          /\ \A o \in DOMAIN before[m] :
                after[m][o] =
                    IF from = to \/ <<m, o>> \notin {from, to} THEN before[m][o]
                    ELSE IF <<m, o>> = from THEN Sub(before[m][o], amount)
                    ELSE Add(before[m][o], amount)

\* C3: a record is claimed at most once.  A claim by the depositor of an
\* unclaimed record succeeds, sets claimed and raises the claim counter by 1; a
\* claim by the depositor of a claimed record fails with AlreadyClaimed and
\* changes nothing; a claimed record stays claimed; and in every step the
\* claim counter rises by exactly the number of records that became claimed.
C3_ClaimedAtMostOnce ==
    [][/\ (result'.ix = "claim_treasure" /\ VaultExists) =>
           \A key \in DOMAIN treasure_record :
               ClaimTreasureTx(treasure_record[key].player, key)
               => IF treasure_record[key].claimed
                  THEN /\ result'.err = "AlreadyClaimed"
                       /\ UNCHANGED <<gameVaultVars, tokenVars>>
                  ELSE /\ result'.err = "Ok"
                       /\ treasure_record' = [treasure_record EXCEPT ![key].claimed = TRUE]
                       /\ TotalClaimed(vault') = Add(TotalClaimed(vault), U64(1))
       /\ (result'.ix = "claim_monster" /\ TdVaultExists) =>
           \A key \in DOMAIN deposit_record :
               ClaimMonsterTx(deposit_record[key].player, key)
               => IF deposit_record[key].claimed
                  THEN /\ result'.err = "AlreadyClaimed"
                       /\ UNCHANGED <<tdVars, tokenVars>>
                  ELSE /\ result'.err = "Ok"
                       /\ deposit_record' = [deposit_record EXCEPT ![key].claimed = TRUE]
                       /\ TotalMonstersMinted(td_vault') =
                              Add(TotalMonstersMinted(td_vault), U64(1))
       /\ \A key \in DOMAIN treasure_record :
              treasure_record[key].claimed
              => (key \in DOMAIN treasure_record' /\ treasure_record'[key].claimed)
       /\ \A key \in DOMAIN deposit_record :
              deposit_record[key].claimed
              => (key \in DOMAIN deposit_record' /\ deposit_record'[key].claimed)
       /\ TotalClaimed(vault') =
              Add(TotalClaimed(vault),
                  U64(Cardinality(NewlyClaimed(treasure_record, treasure_record'))))
       /\ TotalMonstersMinted(td_vault') =
              Add(TotalMonstersMinted(td_vault),
                  U64(Cardinality(NewlyClaimed(deposit_record, deposit_record'))))
      ]_vars

\* C3 witness: a second claim of a record was refused
C3_Witness ==
    /\ result.ix = "claim_treasure"
    /\ result.err = "AlreadyClaimed"
    /\ TotalClaimed(vault) = U64(1)

\* C4: in every reachable state, a deposit to an address (depositor, nonce)
\* that already holds a record, between two token accounts that exist, fails
\* with DuplicateDeposit and changes neither the record, nor the vault, nor a
\* token account; a deposit of amount >= minimum to a free address, from an
\* account of the depositor that holds the amount to an account of the same
\* mint and with a total that fits in u64, succeeds, creates the record with
\* that amount, leaves the other records as they are, moves the amount from
\* the source to the destination account and raises the deposited total by
\* that amount (so two deposits with different nonces raise it by the sum of
\* both amounts).
C4_DuplicateNonceRejected ==
    /\ VaultExists =>
        \A player \in Keys, treasure_id \in RecordIds, amount \in DepositAmounts,
           from \in SourceAccounts, to \in DestinationAccounts :
            LET key == <<player, treasure_id>>
                out == hide_treasure(vault, treasure_record, Tokens, whitelist,
                                     player, from, to, amount, treasure_id)
            IN  /\ ( /\ key \in DOMAIN treasure_record
                     /\ TokenAccountExists(Tokens, from)
                     /\ TokenAccountExists(Tokens, to) )
                   => /\ out.err = DuplicateDeposit
                      /\ out.records = treasure_record
                      /\ out.vault = vault
                      /\ out.tokens = Tokens
                /\ ( /\ key \notin DOMAIN treasure_record
                     /\ from[2] = player /\ Payable(Tokens, from, to, amount)
                     /\ Le(MIN_DEPOSIT, amount)
                     /\ Fits(TotalHidden(vault), amount) )
                   => /\ out.err = "Ok"
                      /\ DOMAIN out.records = DOMAIN treasure_record \cup {key}
                      /\ out.records[key].amount = amount
                      /\ \A k \in DOMAIN treasure_record : out.records[k] = treasure_record[k]
                      /\ Moved(Tokens, out.tokens, from, to, amount)
                      /\ TotalHidden(out.vault) = Add(TotalHidden(vault), amount)
    /\ TdVaultExists =>
        \A player \in Keys, amount \in DepositAmounts,
           from \in SourceAccounts, to \in DestinationAccounts :
            LET key == <<player, clock>>
                out == deposit_for_monster(td_vault, deposit_record, Tokens,
                                           td_whitelist, player, from, to, amount, clock)
            IN  /\ ( /\ key \in DOMAIN deposit_record
                     /\ TokenAccountExists(Tokens, from)
                     /\ TokenAccountExists(Tokens, to) )
                   => /\ out.err = DuplicateDeposit
                      /\ out.records = deposit_record
                      /\ out.vault = td_vault
                      /\ out.tokens = Tokens
                /\ ( /\ key \notin DOMAIN deposit_record
                     /\ from[2] = player /\ Payable(Tokens, from, to, amount)
                     /\ Le(MIN_DEPOSIT, amount)
                     /\ Fits(TotalDeposits(td_vault), amount) )
                   => /\ out.err = "Ok"
                      /\ DOMAIN out.records = DOMAIN deposit_record \cup {key}
                      /\ out.records[key].amount = amount
                      /\ \A k \in DOMAIN deposit_record : out.records[k] = deposit_record[k]
                      /\ Moved(Tokens, out.tokens, from, to, amount)
                      /\ TotalDeposits(out.vault) = Add(TotalDeposits(td_vault), amount)

\* C4 witness: a duplicate was refused while the same depositor holds two
\* records under different nonces, the total being the sum of their amounts
C4_Witness ==
    /\ result.ix = "hide_treasure"
    /\ result.err = DuplicateDeposit
    /\ \E p \in Keys, i \in RecordIds, j \in RecordIds :
          /\ i # j
          /\ {<<p, i>>, <<p, j>>} \subseteq DOMAIN treasure_record
          /\ TotalHidden(vault) = Add(treasure_record[<<p, i>>].amount,
                                      treasure_record[<<p, j>>].amount)

\* C8: in every reachable state a deposit below the minimum fails without
\* invoking the transfer and changes nothing; made to a free address from an
\* account of the depositor to any token account it fails with InsufficientDeposit
\* (InsufficientTreasure in the game program) and leaves the address free.  A
\* deposit of exactly the minimum passes the minimum check, and succeeds when
\* the account holds the amount, the destination is of the same mint and the
\* total fits in u64.
C8_MinimumDeposit ==
    /\ VaultExists =>
        \A player \in Keys, treasure_id \in RecordIds,
           amount \in {U64(0)} \cup DepositAmounts,
           from \in SourceAccounts, to \in DestinationAccounts :
            LET key == <<player, treasure_id>>
                free == /\ key \notin DOMAIN treasure_record /\ from[2] = player
                        /\ TokenAccountExists(Tokens, from)
                        /\ TokenAccountExists(Tokens, to)
                out == hide_treasure(vault, treasure_record, Tokens, whitelist,
                                     player, from, to, amount, treasure_id)
            IN  /\ Lt(amount, MIN_DEPOSIT)
                   => /\ out.err # "Ok" /\ ~out.cpi
                      /\ out.records = treasure_record
                      /\ out.vault = vault
                      /\ out.tokens = Tokens
                      /\ free => (out.err = "InsufficientTreasure"
                                   /\ key \notin DOMAIN out.records)
                /\ (amount = MIN_DEPOSIT /\ free)
                   => /\ out.err # "InsufficientTreasure"
                      /\ (Payable(Tokens, from, to, amount) /\ Fits(TotalHidden(vault), amount))
                         => out.err = "Ok"
    /\ TdVaultExists =>
        \A player \in Keys, amount \in {U64(0)} \cup DepositAmounts,
           from \in SourceAccounts, to \in DestinationAccounts :
            LET key == <<player, clock>>
                free == /\ key \notin DOMAIN deposit_record /\ from[2] = player
                        /\ TokenAccountExists(Tokens, from)
                        /\ TokenAccountExists(Tokens, to)
                out == deposit_for_monster(td_vault, deposit_record, Tokens,
                                           td_whitelist, player, from, to, amount, clock)
            IN  /\ Lt(amount, MIN_DEPOSIT)
                   => /\ out.err # "Ok" /\ ~out.cpi
                      /\ out.records = deposit_record
                      /\ out.vault = td_vault
                      /\ out.tokens = Tokens
                      /\ free => (out.err = "InsufficientDeposit"
                                   /\ key \notin DOMAIN out.records)
                /\ (amount = MIN_DEPOSIT /\ free)
                   => /\ out.err # "InsufficientDeposit"
                      /\ (Payable(Tokens, from, to, amount)
                          /\ Fits(TotalDeposits(td_vault), amount))
                         => out.err = "Ok"

\* C8 witness: a deposit below the minimum was refused after one of exactly the
\* minimum had been accepted
C8_Witness ==
    /\ result.ix = "deposit_for_monster"
    /\ result.err = "InsufficientDeposit"
    /\ TotalDeposits(td_vault) = MIN_DEPOSIT

\* C9: a claim by anyone but the record's depositor fails with Unauthorized,
\* claimed or not, and changes nothing; a record is created unclaimed, and a
\* step in which a record becomes claimed is a successful claim that only its
\* depositor's call explains.
C9_OnlyDepositorClaims ==
    [][/\ (result'.ix = "claim_treasure" /\ VaultExists) =>
           \A key \in DOMAIN treasure_record, player \in Keys :
               (player # treasure_record[key].player /\ ClaimTreasureTx(player, key))
               => (result'.err = "Unauthorized" /\ UNCHANGED <<gameVaultVars, tokenVars>>)
       /\ (result'.ix = "claim_monster" /\ TdVaultExists) =>
           \A key \in DOMAIN deposit_record, player \in Keys :
               (player # deposit_record[key].player /\ ClaimMonsterTx(player, key))
               => (result'.err = "Unauthorized" /\ UNCHANGED <<tdVars, tokenVars>>)
       /\ \A key \in NewlyClaimed(treasure_record, treasure_record') :
              /\ key \in DOMAIN treasure_record
              /\ result'.ix = "claim_treasure" /\ result'.err = "Ok"
              /\ \A player \in Keys :
                     ClaimTreasureTx(player, key) <=> player = treasure_record[key].player
       /\ \A key \in NewlyClaimed(deposit_record, deposit_record') :
              /\ key \in DOMAIN deposit_record
              /\ result'.ix = "claim_monster" /\ result'.err = "Ok"
              /\ \A player \in Keys :
                     ClaimMonsterTx(player, key) <=> player = deposit_record[key].player
      ]_vars

\* C9 witness: a stranger's claim was refused on a vault that holds a claimed
\* and an unclaimed record
C9_Witness ==
    /\ result.ix = "claim_monster"
    /\ result.err = "Unauthorized"
    /\ \E j \in DOMAIN deposit_record, k \in DOMAIN deposit_record :
          deposit_record[j].claimed /\ ~deposit_record[k].claimed

\* ==================================================================
\* properties of the tier classification
\* ==================================================================

\* the call of calculate_tier last made
TierCalled == IsSome(tier_call)
TierCall == Unwrap(tier_call)

\* the amount is at least `tokens` whole tokens (tokens * 10^6 base units)
AtLeastTokens(amount, tokens) == Le(TokenAmount(tokens, 0), amount)

\* C11: tier_of(amount) is 4 from 100_000 whole tokens, 3 from 10_000, 2 from
\* 1_000 and else 1; it is non-decreasing in amount; and tier_of(99_999_999) = 1,
\* tier_of(100_000_000) = 1, tier_of(1_000_000_000) = 2,
\* tier_of(10_000_000_000) = 3, tier_of(100_000_000_000) = 4, the amount just
\* below each boundary mapping to the lower tier.
C11_TierBands ==
    TierCalled =>
        LET c == TierCall
            at(whole, rest) == c.amount = TokenAmount(whole, rest)
        IN  /\ c.tier \in 1..4
            /\ (c.tier = 4) <=> AtLeastTokens(c.amount, 100000)
            /\ (c.tier >= 3) <=> AtLeastTokens(c.amount, 10000)
            /\ (c.tier >= 2) <=> AtLeastTokens(c.amount, 1000)
            /\ \A amount \in TierAmounts :
                   Le(c.amount, amount) => c.tier <= calculate_tier(amount)
            /\ at(0, 99999999) => c.tier = 1
            /\ at(0, 100000000) => c.tier = 1
            /\ at(0, 999999999) => c.tier = 1
            /\ at(0, 1000000000) => c.tier = 2
            /\ at(9999, 999999) => c.tier = 2
            /\ at(10000, 0) => c.tier = 3
            /\ at(99999, 999999) => c.tier = 3
            /\ at(100000, 0) => c.tier = 4
            /\ c.amount = U64_MAX => c.tier = 4

\* C11 witness: calculate_tier was called with 100_000_000_000 and returned 4
C11_Witness ==
    /\ TierCalled
    /\ TierCall.amount = <<0, 0, 100000, 0>>
    /\ TierCall.tier = 4

\* tier_of as the specification states it
TierOfAmount(amount) ==
    IF AtLeastTokens(amount, 100000) THEN 4
    ELSE IF AtLeastTokens(amount, 10000) THEN 3
    ELSE IF AtLeastTokens(amount, 1000) THEN 2
    ELSE 1

\* C12 as stated: every record created by hide_treasure or deposit_for_monster
\* carries a classification in 1..4 equal to tier_of(amount), and
\* amount >= 100_000_000.  (deposit_for_monster stores
\* monster_type = (amount / 100_000_000) % 5 instead.)
C12_RecordsClassified ==
    /\ \A k \in DOMAIN treasure_record :
           LET r == treasure_record[k] IN
           /\ r.tier \in 1..4
           /\ r.tier = TierOfAmount(r.amount)
           /\ Le(U64(100000000), r.amount)
    /\ \A k \in DOMAIN deposit_record :
           LET r == deposit_record[k] IN
           /\ r.monster_type \in 1..4
           /\ r.monster_type = TierOfAmount(r.amount)
           /\ Le(U64(100000000), r.amount)

\* ==================================================================
\* properties of the counters and records
\* ==================================================================

\* C13: in both vaults the deposit total and the claim count never decrease,
\* no record is ever removed, and the claim count is at most the number of
\* records created.
C13_VaultCountersMonotone ==
    [][/\ Le(TotalHidden(vault), TotalHidden(vault'))
       /\ Le(TotalClaimed(vault), TotalClaimed(vault'))
       /\ DOMAIN treasure_record \subseteq DOMAIN treasure_record'
       /\ Le(TotalClaimed(vault'), U64(Cardinality(DOMAIN treasure_record')))
       /\ Le(TotalDeposits(td_vault), TotalDeposits(td_vault'))
       /\ Le(TotalMonstersMinted(td_vault), TotalMonstersMinted(td_vault'))
       /\ DOMAIN deposit_record \subseteq DOMAIN deposit_record'
       /\ Le(TotalMonstersMinted(td_vault'), U64(Cardinality(DOMAIN deposit_record')))
      ]_vars

\* C13 witness: two deposits were made and both have been claimed
C13_Witness ==
    \/ /\ result.ix = "claim_treasure"
       /\ TotalClaimed(vault) = U64(2)
       /\ Le(Add(MIN_DEPOSIT, MIN_DEPOSIT), TotalHidden(vault))
    \/ /\ result.ix = "claim_monster"
       /\ TotalMonstersMinted(td_vault) = U64(2)
       /\ Le(Add(MIN_DEPOSIT, MIN_DEPOSIT), TotalDeposits(td_vault))

\* the counters of a supply ledger account store (0 before it is initialised)
MinedOf(store, pda) == IF pda \in DOMAIN store THEN store[pda].total_mined ELSE U64(0)
BurnedOf(store, pda) == IF pda \in DOMAIN store THEN store[pda].total_burned ELSE U64(0)

\* C14: on the supply ledger (booty's config, and the game's booty_state)
\* total_mined and total_burned never decrease in any step; a mint step leaves
\* total_burned as it was and a burn step leaves total_mined as it was.
C14_LedgerCountersMonotone ==
    [][/\ Le(MinedOf(config, ConfigPda), MinedOf(config', ConfigPda))
       /\ Le(BurnedOf(config, ConfigPda), BurnedOf(config', ConfigPda))
       /\ Le(MinedOf(booty_state, BootyStatePda), MinedOf(booty_state', BootyStatePda))
       /\ Le(BurnedOf(booty_state, BootyStatePda), BurnedOf(booty_state', BootyStatePda))
       /\ result'.ix \in {"mine_tokens", "mine_booty"}
              => /\ BurnedOf(config', ConfigPda) = BurnedOf(config, ConfigPda)
                 /\ BurnedOf(booty_state', BootyStatePda) = BurnedOf(booty_state, BootyStatePda)
       /\ result'.ix \in {"burn_tokens", "burn_booty_for_travel"}
              => /\ MinedOf(config', ConfigPda) = MinedOf(config, ConfigPda)
                 /\ MinedOf(booty_state', BootyStatePda) = MinedOf(booty_state, BootyStatePda)
      ]_vars

\* C14 witness: a burn has succeeded after a mint, both counters being raised
C14_Witness ==
    \/ /\ result.ix = "burn_tokens"
       /\ result.err = "Ok"
       /\ Lt(U64(0), BurnedOf(config, ConfigPda))
       /\ Lt(BurnedOf(config, ConfigPda), MinedOf(config, ConfigPda))
    \/ /\ result.ix = "burn_booty_for_travel"
       /\ result.err = "Ok"
       /\ Lt(U64(0), BurnedOf(booty_state, BootyStatePda))
       /\ Lt(BurnedOf(booty_state, BootyStatePda), MinedOf(booty_state, BootyStatePda))

\* C15: a record is created with claimed = FALSE; in every step every existing
\* record stays at its address with its depositor, amount, nonce and
\* classification, and a claimed record stays claimed.  This holds for
\* deposits (duplicate-nonce attempts included), claims and update_vault as
\* steps, and for whitelist_token, whose outcome is compared with the records
\* of the state it is called in.
C15_ClaimedIsTerminal ==
    [][/\ \A k \in DOMAIN treasure_record' :
              k \notin DOMAIN treasure_record => ~treasure_record'[k].claimed
       /\ \A k \in DOMAIN treasure_record :
              /\ k \in DOMAIN treasure_record'
              /\ [treasure_record'[k] EXCEPT !.claimed = FALSE]
                     = [treasure_record[k] EXCEPT !.claimed = FALSE]
              /\ treasure_record[k].claimed => treasure_record'[k].claimed
       /\ \A k \in DOMAIN deposit_record' :
              k \notin DOMAIN deposit_record => ~deposit_record'[k].claimed
       /\ \A k \in DOMAIN deposit_record :
              /\ k \in DOMAIN deposit_record'
              /\ [deposit_record'[k] EXCEPT !.claimed = FALSE]
                     = [deposit_record[k] EXCEPT !.claimed = FALSE]
              /\ deposit_record[k].claimed => deposit_record'[k].claimed
       /\ \A authority \in Keys, token_mint \in AssetMints, mint_account \in AssetMints :
              /\ whitelist_token(vault, treasure_record, Tokens, whitelist,
                                 authority, token_mint, mint_account).records
                     = treasure_record
              /\ td_whitelist_token(td_vault, deposit_record, Tokens, td_whitelist,
                                    authority, token_mint, mint_account).records
                     = deposit_record
      ]_vars

\* C15 witness: a deposit was attempted on the nonce of a record already claimed
C15_Witness ==
    \/ /\ result.ix = "hide_treasure"
       /\ result.err = DuplicateDeposit
       /\ \E k \in DOMAIN treasure_record : treasure_record[k].claimed
    \/ /\ result.ix = "deposit_for_monster"
       /\ result.err = DuplicateDeposit
       /\ \E k \in DOMAIN deposit_record : deposit_record[k].claimed

\* ==================================================================
\* properties of the token whitelist
\* ==================================================================

\* the authority stored in a vault account store
AuthorityOf(v) == v[VaultPda].authority

\* C16 as stated: whitelist_token by the vault authority for a token mint that
\* already has an entry succeeds and leaves the entry with enabled = TRUE.
\* (The entry account is `init`: the second call fails.)
C16_WhitelistIdempotent ==
    [][\A authority \in Keys, token_mint \in AssetMints, mint_account \in AssetMints :
         /\ ( /\ result'.ix = "whitelist_token"
              /\ VaultExists
              /\ authority = AuthorityOf(vault)
              /\ mint_account \in DOMAIN whitelist
              /\ WhitelistTokenTx(authority, token_mint, mint_account) )
            => (result'.err = "Ok" /\ whitelist'[mint_account].enabled)
         /\ ( /\ result'.ix = "td_whitelist_token"
              /\ TdVaultExists
              /\ authority = AuthorityOf(td_vault)
              /\ mint_account \in DOMAIN td_whitelist
              /\ TdWhitelistTokenTx(authority, token_mint, mint_account) )
            => (result'.err = "Ok" /\ td_whitelist'[mint_account].enabled)
      ]_vars

\* C17 as stated: whitelist_token succeeds only for the authority stored in
\* the vault at the time of the call; by any other signer it fails with
\* Unauthorized and no entry is created or changed.  A successful
\* update_vault(Some(new)) stores `new`; from the state it leaves, the
\* previous authority is refused with Unauthorized and the new one can
\* whitelist a token mint that has no entry.
\* (The entry account is `init`, created before the authority constraint is
\* evaluated: on a token mint that has an entry a signer other than the
\* authority fails with AccountAlreadyInUse.)
C17_WhitelistOnlyByAuthority ==
    [][\A authority \in Keys, token_mint \in AssetMints, mint_account \in AssetMints :
         /\ ( /\ result'.ix = "whitelist_token"
              /\ VaultExists
              /\ WhitelistTokenTx(authority, token_mint, mint_account) )
            => /\ result'.err = "Ok" => authority = AuthorityOf(vault)
               /\ authority # AuthorityOf(vault)
                      => (result'.err = "Unauthorized" /\ whitelist' = whitelist)
         /\ ( /\ result'.ix = "td_whitelist_token"
              /\ TdVaultExists
              /\ TdWhitelistTokenTx(authority, token_mint, mint_account) )
            => /\ result'.err = "Ok" => authority = AuthorityOf(td_vault)
               /\ authority # AuthorityOf(td_vault)
                      => (result'.err = "Unauthorized" /\ td_whitelist' = td_whitelist)
         /\ \A new \in Keys \ {authority} :
              /\ ( /\ result'.ix = "update_vault"
                   /\ result'.err = "Ok"
                   /\ UpdateVaultTx(authority, Some(new)) )
                 => /\ AuthorityOf(vault') = new
                    /\ whitelist_token(vault', treasure_record', Tokens', whitelist',
                                       authority, token_mint, mint_account).err
                           = "Unauthorized"
                    /\ mint_account \notin DOMAIN whitelist'
                           => whitelist_token(vault', treasure_record', Tokens',
                                      whitelist', new, token_mint, mint_account).err = "Ok"
              /\ ( /\ result'.ix = "td_update_vault"
                   /\ result'.err = "Ok"
                   /\ TdUpdateVaultTx(authority, Some(new)) )
                 => /\ AuthorityOf(td_vault') = new
                    /\ td_whitelist_token(td_vault', deposit_record', Tokens',
                           td_whitelist', authority, token_mint, mint_account).err
                           = "Unauthorized"
                    /\ mint_account \notin DOMAIN td_whitelist'
                           => td_whitelist_token(td_vault', deposit_record',
                                      Tokens', td_whitelist', new,
                                      token_mint, mint_account).err = "Ok"
      ]_vars

\* ==================================================================
\* properties of the search records
\* ==================================================================

\* C18: search_treasure with any coordinates succeeds when no record exists at
\* (player, search_id) and creates exactly the record (player, x, y,
\* search_id, found = FALSE), every other record staying as it was; when a
\* record exists there it fails and every record stays as it was.
C18_SearchCreatesRecord ==
    [][\A player \in Keys, x \in Coords, y \in Coords, search_id \in RecordIds :
         ( /\ result'.ix = "search_treasure"
           /\ SearchTreasureTx(player, x, y, search_id) )
         => IF <<player, search_id>> \notin DOMAIN search_record
            THEN /\ result'.err = "Ok"
                 /\ DOMAIN search_record'
                        = DOMAIN search_record \cup {<<player, search_id>>}
                 /\ search_record'[<<player, search_id>>]
                        = [player |-> player, x |-> x, y |-> y,
                           timestamp |-> search_id, found |-> FALSE]
                 /\ \A k \in DOMAIN search_record : search_record'[k] = search_record[k]
            ELSE /\ result'.err = DuplicateDeposit
                 /\ search_record' = search_record
      ]_vars

\* C18 witness: a search was refused on the nonce of an existing record, which
\* holds the lowest i32 as x and the highest as y
C18_Witness ==
    /\ result.ix = "search_treasure"
    /\ result.err = DuplicateDeposit
    /\ \E k \in DOMAIN search_record :
           /\ search_record[k].x = -2147483647 - 1
           /\ search_record[k].y = 2147483647
           /\ ~search_record[k].found

\* ==================================================================
\* properties of the order of checks and of overflow
\* ==================================================================

\* the instructions that invoke token::mint_to, token::burn or token::transfer
TokenInstructions ==
    {"mine_tokens", "burn_tokens", "mine_booty", "burn_booty_for_travel",
     "hide_treasure", "deposit_for_monster"}

\* the failures of a check the program makes itself (the amount minimum, the
\* cap, the checked_add of a counter), as opposed to a refusal by the token
\* program
CoreCheckFailures ==
    {"InsufficientTreasure", "InsufficientDeposit", "MaxSupplyExceeded",
     "ArithmeticOverflow", "Panic"}

\* C19 as stated: no mint, burn or deposit invokes the external primitive and
\* fails a core check afterwards.  (The counters are raised with checked_add
\* after mint_to / burn / transfer has been invoked.)
C19_ChecksBeforeExternalCall ==
    ~( /\ result.ix \in TokenInstructions
       /\ result.cpi
       /\ result.err \in CoreCheckFailures )

\* C20 as stated: a deposit whose amount takes the vault total past the
\* largest u64 fails with ArithmeticOverflow, creates no record and leaves the
\* total as it was.  (checked_add(..).unwrap() panics instead of returning the
\* error.)
C20_DepositOverflowError ==
    [][\A player \in Keys, amount \in DepositAmounts,
          from \in SourceAccounts, to \in DestinationAccounts :
         /\ \A treasure_id \in RecordIds :
              ( /\ result'.ix = "hide_treasure"
                /\ VaultExists
                /\ <<player, treasure_id>> \notin DOMAIN treasure_record
                /\ from[2] = player /\ Payable(Tokens, from, to, amount)
                /\ Le(MIN_DEPOSIT, amount)
                /\ ~Fits(TotalHidden(vault), amount)
                /\ HideTreasureTx(player, from, to, amount, treasure_id) )
              => /\ result'.err = "ArithmeticOverflow"
                 /\ treasure_record' = treasure_record
                 /\ TotalHidden(vault') = TotalHidden(vault)
         /\ ( /\ result'.ix = "deposit_for_monster"
              /\ TdVaultExists
              /\ <<player, clock>> \notin DOMAIN deposit_record
              /\ from[2] = player /\ Payable(Tokens, from, to, amount)
              /\ Le(MIN_DEPOSIT, amount)
              /\ ~Fits(TotalDeposits(td_vault), amount)
              /\ DepositForMonsterTx(player, from, to, amount) )
            => /\ result'.err = "ArithmeticOverflow"
               /\ deposit_record' = deposit_record
               /\ TotalDeposits(td_vault') = TotalDeposits(td_vault)
      ]_vars

\* ==================================================================
\* properties of mint and burn on the supply ledger
\* ==================================================================

\* C21 as stated: a mint whose amount takes total_mined past the largest u64
\* fails with ArithmeticOverflow, with max_supply set and with max_supply
\* None, and leaves total_mined as it was; MaxSupplyExceeded is returned only
\* when the sum fits in u64 and exceeds the cap.  (With max_supply None the sum
\* is checked only after token::mint_to, which refuses a supply past the
\* largest u64 first.)
C21_MintOverflowError ==
    [][/\ \A payer \in Keys, player \in Keys, amount \in LedgerAmounts :
         ( /\ result'.ix = "mine_tokens"
           /\ LedgerExists
           /\ MineTokensTx(payer, player, BootyMintKey, amount) )
         => /\ ~Fits(Ledger.total_mined, amount)
               => /\ result'.err = "ArithmeticOverflow"
                  /\ config'[ConfigPda].total_mined = Ledger.total_mined
            /\ result'.err = "MaxSupplyExceeded"
               => /\ IsSome(Ledger.max_supply)
                  /\ Fits(Ledger.total_mined, amount)
                  /\ Lt(Unwrap(Ledger.max_supply), Add(Ledger.total_mined, amount))
       /\ \A player \in Keys, amount \in LedgerAmounts :
         ( /\ result'.ix = "mine_booty"
           /\ BootyStateExists
           /\ MineBootyTx(player, GameBootyMintKey, amount) )
         => /\ ~Fits(BootyLedger.total_mined, amount)
               => /\ result'.err = "ArithmeticOverflow"
                  /\ booty_state'[BootyStatePda].total_mined = BootyLedger.total_mined
            /\ result'.err = "MaxSupplyExceeded"
               => /\ IsSome(BootyLedger.max_supply)
                  /\ Fits(BootyLedger.total_mined, amount)
                  /\ Lt(Unwrap(BootyLedger.max_supply),
                        Add(BootyLedger.total_mined, amount))
      ]_vars

\* ==================================================================
\* properties of initialisation
\* ==================================================================

\* C22: each singleton account is initialised at most once.  initialize (and
\* the game's initialize_booty_mint) on a free address succeeds and stores the
\* caller as authority, the cap given and total_mined = total_burned = 0;
\* initialize_vault (of either vault program) on a free address succeeds and
\* stores the caller as authority and both counters 0.  On an occupied address
\* each of them fails, for every caller, and leaves the account (authority,
\* counters, cap) as it was.  No other instruction creates these accounts.
C22_InitialisedOnce ==
    [][/\ \A authority \in Keys, max_supply \in OptCaps :
            /\ (result'.ix = "initialize" /\ InitializeTx(authority, max_supply))
               => IF LedgerExists
                  THEN result'.err # "Ok" /\ config' = config
                  ELSE /\ result'.err = "Ok"
                       /\ config'[ConfigPda].total_mined = U64(0)
                       /\ config'[ConfigPda].total_burned = U64(0)
                       /\ config'[ConfigPda].mint_authority = authority
                       /\ config'[ConfigPda].max_supply = max_supply
            /\ ( /\ result'.ix = "initialize_booty_mint"
                 /\ InitializeBootyMintTx(authority, max_supply) )
               => IF BootyStateExists
                  THEN result'.err # "Ok" /\ booty_state' = booty_state
                  ELSE /\ result'.err = "Ok"
                       /\ booty_state'[BootyStatePda].total_mined = U64(0)
                       /\ booty_state'[BootyStatePda].total_burned = U64(0)
                       /\ booty_state'[BootyStatePda].authority = authority
                       /\ booty_state'[BootyStatePda].max_supply = max_supply
            /\ (result'.ix = "initialize_vault" /\ InitializeVaultTx(authority))
               => IF VaultExists
                  THEN result'.err # "Ok" /\ vault' = vault
                  ELSE /\ result'.err = "Ok"
                       /\ vault'[VaultPda] = [authority |-> authority,
                                              total_hidden |-> U64(0),
                                              total_claimed |-> U64(0)]
            /\ (result'.ix = "td_initialize" /\ TdInitializeTx(authority))
               => IF TdVaultExists
                  THEN result'.err # "Ok" /\ td_vault' = td_vault
                  ELSE /\ result'.err = "Ok"
                       /\ td_vault'[VaultPda] = [authority |-> authority,
                                                 total_deposits |-> U64(0),
                                                 total_monsters_minted |-> U64(0)]
       /\ (~LedgerExists /\ ConfigPda \in DOMAIN config') => result'.ix = "initialize"
       /\ (~BootyStateExists /\ BootyStatePda \in DOMAIN booty_state')
              => result'.ix = "initialize_booty_mint"
       /\ (~VaultExists /\ VaultPda \in DOMAIN vault') => result'.ix = "initialize_vault"
       /\ (~TdVaultExists /\ VaultPda \in DOMAIN td_vault') => result'.ix = "td_initialize"
      ]_vars

\* C22 witness: a second initialisation by another caller was refused on a
\* ledger or vault whose counter had been raised
C22_Witness ==
    \/ /\ result.ix = "initialize"
       /\ result.err # "Ok"
       /\ Lt(U64(0), Ledger.total_mined)
    \/ /\ result.ix = "initialize_vault"
       /\ result.err # "Ok"
       /\ Lt(U64(0), TotalHidden(vault))

\* ==================================================================
\* properties of deposits and the whitelist
\* ==================================================================

\* C23 as stated: a deposit commits only when the whitelist holds an enabled
\* entry for the deposited asset: after every successful hide_treasure /
\* deposit_for_monster some enabled whitelist entry exists.  (HideTreasure and
\* DepositForMonster take no whitelist account: a deposit succeeds on an empty
\* whitelist.)
C23_DepositNeedsWhitelist ==
    /\ (result.ix = "hide_treasure" /\ result.err = "Ok")
           => \E m \in DOMAIN whitelist : whitelist[m].enabled
    /\ (result.ix = "deposit_for_monster" /\ result.err = "Ok")
           => \E m \in DOMAIN td_whitelist : td_whitelist[m].enabled

\* ==================================================================
\* properties of the collectibles
\* ==================================================================

\* the collectible a successful mint_collectible / mint_nft leaves at `mint`
IssuedTo(player, payer) == [mint_authority |-> payer, supply |-> 1, holder |-> player]

\* C24: mint_collectible (and the game's mint_nft) has no repeat-issuance guard
\* and no link to a deposit record.  Over every step of a run in which
\* collectibles are minted while deposits are made and claimed: an invocation
\* naming an existing mint fails and changes nothing; an invocation naming a
\* new mint, with its metadata address, succeeds whatever collectibles exist
\* already (also one with the same recipient, payer, title, symbol and uri)
\* and whatever the vault and its records are (no vault, no record, records
\* claimed or not); it adds exactly that mint with one unit issued to the
\* recipient, leaves the other collectibles as they were and touches neither
\* the vault nor a record.
C24_NoRepeatIssuanceGuard ==
    [][/\ result'.ix = "mint_collectible" =>
           \A player \in Keys, payer \in Keys, mint \in NftMintKeys,
              metadata \in NftMintKeys, title \in Titles :
               MintCollectibleTx(player, payer, mint, metadata, title,
                                 "DOTTY", "https://dotty/1.json")
               => IF mint \in DOMAIN nft_mint
                  THEN result'.err # "Ok" /\ UNCHANGED nftVars
                  ELSE metadata = mint
                       => /\ result'.err = "Ok"
                          /\ nft_mint' = Put(nft_mint, mint, IssuedTo(player, payer))
                          /\ nft_metadata' = Put(nft_metadata, mint,
                                 metadata_data(payer, title, "DOTTY", "https://dotty/1.json"))
                          /\ UNCHANGED <<td_vault, deposit_record>>
       /\ result'.ix = "mint_nft" =>
           \A player \in Keys, payer \in Keys, mint \in NftMintKeys,
              metadata \in NftMintKeys, title \in Titles :
               MintNftTx(player, payer, mint, metadata, title,
                         "DOTTY", "https://dotty/1.json")
               => IF mint \in DOMAIN nft_mint
                  THEN result'.err # "Ok" /\ UNCHANGED nftVars
                  ELSE metadata = mint
                       => /\ result'.err = "Ok"
                          /\ nft_mint' = Put(nft_mint, mint, IssuedTo(player, payer))
                          /\ nft_metadata' = Put(nft_metadata, mint,
                                 metadata_data(payer, title, "DOTTY", "https://dotty/1.json"))
                          /\ UNCHANGED <<vault, treasure_record>>
      ]_vars

\* C24 witness: a second collectible has been minted with the recipient,
\* payer, title, symbol and uri of the first, under another mint, one unit
\* each, while the vault holds a claimed record and an unclaimed one: two
\* collectibles against a claim count of one
C24_Witness ==
    /\ result.ix = "mint_collectible"
    /\ result.err = "Ok"
    /\ \E a \in DOMAIN nft_mint, b \in DOMAIN nft_mint :
          /\ a # b
          /\ nft_mint[a] = nft_mint[b]
          /\ nft_mint[a].supply = 1
          /\ nft_metadata[a] = nft_metadata[b]
    /\ TdVaultExists
    /\ \E k \in DOMAIN deposit_record : deposit_record[k].claimed
    /\ \E k \in DOMAIN deposit_record : ~deposit_record[k].claimed
    /\ td_vault[VaultPda].total_monsters_minted = U64(1)
    /\ Cardinality(DOMAIN nft_mint) = 2

\* ==================================================================
\* properties of the vault authority
\* ==================================================================

\* C25: update_vault (of either vault program) by the stored authority
\* succeeds: with Some(a) the authority becomes a, with None it stays; the
\* deposit total, the claim count, the records, the tokens held and the
\* whitelist are unchanged.  By any other signer it fails with Unauthorized
\* and changes nothing.
C25_UpdateVaultAuthority ==
    [][/\ (result'.ix = "update_vault" /\ VaultExists) =>
           \A authority \in Keys, new_authority \in OptKeys :
               UpdateVaultTx(authority, new_authority)
               => IF authority = AuthorityOf(vault)
                  THEN /\ result'.err = "Ok"
                       /\ vault' = [vault EXCEPT ![VaultPda].authority =
                                       IF IsSome(new_authority)
                                       THEN Unwrap(new_authority) ELSE @]
                       /\ UNCHANGED <<treasure_record, tokenVars, whitelist>>
                  ELSE /\ result'.err = "Unauthorized"
                       /\ UNCHANGED <<gameVaultVars, tokenVars>>
       /\ (result'.ix = "td_update_vault" /\ TdVaultExists) =>
           \A authority \in Keys, new_authority \in OptKeys :
               TdUpdateVaultTx(authority, new_authority)
               => IF authority = AuthorityOf(td_vault)
                  THEN /\ result'.err = "Ok"
                       /\ td_vault' = [td_vault EXCEPT ![VaultPda].authority =
                                          IF IsSome(new_authority)
                                          THEN Unwrap(new_authority) ELSE @]
                       /\ UNCHANGED <<deposit_record, tokenVars, td_whitelist>>
                  ELSE /\ result'.err = "Unauthorized"
                       /\ UNCHANGED <<tdVars, tokenVars>>
      ]_vars

\* C25 witness: an update_vault by a signer other than the authority was
\* refused on a vault that holds a deposit and a claim
C25_Witness ==
    \/ /\ result.ix = "update_vault"
       /\ result.err = "Unauthorized"
       /\ Lt(U64(0), TotalHidden(vault))
       /\ TotalClaimed(vault) = U64(1)
    \/ /\ result.ix = "td_update_vault"
       /\ result.err = "Unauthorized"
       /\ Lt(U64(0), TotalDeposits(td_vault))
       /\ TotalMonstersMinted(td_vault) = U64(1)

\* C26 as stated: a successful mint raises total_mined by exactly the amount
\* and leaves total_burned, max_supply, the authority and the mint as they
\* were; with a cap M a mint with total_mined + amount = M succeeds; and a mint
\* of 0 always succeeds and leaves the ledger as it was.  (A mint of 0 fails
\* with MaxSupplyExceeded once update_max_supply has stored a cap below
\* total_mined.)
C26_MintEffect ==
    [][/\ (result'.ix = "mine_tokens" /\ LedgerExists) =>
           \A payer \in Keys, player \in Keys, amount \in LedgerAmounts :
               MineTokensTx(payer, player, BootyMintKey, amount)
               => /\ result'.err = "Ok"
                     => config' = [config EXCEPT ![ConfigPda].total_mined = Add(@, amount)]
                  /\ ( /\ IsSome(Ledger.max_supply)
                       /\ Fits(Ledger.total_mined, amount)
                       /\ Add(Ledger.total_mined, amount) = Unwrap(Ledger.max_supply) )
                     => result'.err = "Ok"
                  /\ amount = U64(0) => (result'.err = "Ok" /\ config' = config)
       /\ (result'.ix = "mine_booty" /\ BootyStateExists) =>
           \A player \in Keys, amount \in LedgerAmounts :
               MineBootyTx(player, GameBootyMintKey, amount)
               => /\ result'.err = "Ok"
                     => booty_state' =
                            [booty_state EXCEPT ![BootyStatePda].total_mined = Add(@, amount)]
                  /\ ( /\ IsSome(BootyLedger.max_supply)
                       /\ Fits(BootyLedger.total_mined, amount)
                       /\ Add(BootyLedger.total_mined, amount)
                              = Unwrap(BootyLedger.max_supply) )
                     => result'.err = "Ok"
                  /\ amount = U64(0) => (result'.err = "Ok" /\ booty_state' = booty_state)
      ]_vars

\* C27: a successful burn raises total_burned by exactly the amount, takes the
\* amount from the holder's token account and leaves total_mined, max_supply,
\* the authority and the mint as they were.  A burn signed by the owner of the
\* token account, of an amount the account holds, succeeds whether or not the
\* signer is the ledger authority.  A burn from a token account the signer
\* does not own fails with InvalidTokenAccount and changes nothing.
C27_BurnEffect ==
    [][/\ (result'.ix = "burn_tokens" /\ LedgerExists) =>
           \A player \in Keys, holder \in DOMAIN token_account, amount \in LedgerAmounts :
               BurnTokensTx(player, holder, BootyMintKey, amount)
               => /\ result'.err = "Ok"
                     => /\ config' = [config EXCEPT ![ConfigPda].total_burned = Add(@, amount)]
                        /\ token_account' = [token_account EXCEPT ![holder] = Sub(@, amount)]
                  /\ ( /\ holder = player
                       /\ Le(amount, token_account[holder])
                       /\ Fits(Ledger.total_burned, amount) )
                     => result'.err = "Ok"
                  /\ holder # player
                     => /\ result'.err = "InvalidTokenAccount"
                        /\ UNCHANGED bootyVars
       /\ (result'.ix = "burn_booty_for_travel" /\ BootyStateExists) =>
           \A player \in Keys, holder \in DOMAIN player_booty_account,
              amount \in LedgerAmounts :
               BurnBootyForTravelTx(player, holder, GameBootyMintKey, amount)
               => /\ result'.err = "Ok"
                     => /\ booty_state' =
                               [booty_state EXCEPT ![BootyStatePda].total_burned = Add(@, amount)]
                        /\ player_booty_account' =
                               [player_booty_account EXCEPT ![holder] = Sub(@, amount)]
                  /\ ( /\ holder = player
                       /\ Le(amount, player_booty_account[holder])
                       /\ Fits(BootyLedger.total_burned, amount) )
                     => result'.err = "Ok"
                  /\ holder # player
                     => /\ result'.err = "InvalidTokenAccount"
                        /\ UNCHANGED gameBootyVars
      ]_vars

\* C27 witness: a burn has succeeded on a ledger whose authority holds no
\* token account (the signer was not the authority)
C27_Witness ==
    \/ /\ result.ix = "burn_tokens"
       /\ result.err = "Ok"
       /\ Lt(U64(0), Ledger.total_burned)
       /\ Ledger.mint_authority \notin DOMAIN token_account
    \/ /\ result.ix = "burn_booty_for_travel"
       /\ result.err = "Ok"
       /\ Lt(U64(0), BootyLedger.total_burned)
       /\ BootyLedger.authority \notin DOMAIN player_booty_account

\* ==================================================================
\* properties relating the vault counters to the records
\* ==================================================================

\* the sum of the amounts of the records of a record store
SumOfAmounts(recs) ==
    LET RECURSIVE Sum(_)
        Sum(S) == IF S = {} THEN U64(0)
                  ELSE LET k == CHOOSE x \in S : TRUE IN Add(recs[k].amount, Sum(S \ {k}))
    IN Sum(DOMAIN recs)

\* the records of a record store that are claimed
Claimed(recs) == {k \in DOMAIN recs : recs[k].claimed}

\* C28: no lost update on the deposit total: in every reachable state, after
\* any interleaving of deposits (and failed deposits, claims, authority
\* updates) by any depositors, the total of the vault equals the sum of the
\* amounts of the records that exist.
C28_TotalIsSumOfRecords ==
    /\ TotalHidden(vault) = SumOfAmounts(treasure_record)
    /\ TotalDeposits(td_vault) = SumOfAmounts(deposit_record)

\* C28 witness: two depositors have deposited, one of them twice
C28_Witness ==
    \/ /\ result.ix = "hide_treasure"
       /\ result.err = "Ok"
       /\ Cardinality(DOMAIN treasure_record) = 3
       /\ Cardinality({treasure_record[k].player : k \in DOMAIN treasure_record}) = 2
    \/ /\ result.ix = "deposit_for_monster"
       /\ result.err = "Ok"
       /\ Cardinality(DOMAIN deposit_record) = 3
       /\ Cardinality({deposit_record[k].player : k \in DOMAIN deposit_record}) = 2

\* C29: in every reachable state the claim count of the vault is the number
\* of records whose claimed flag is set.
C29_ClaimCountIsClaimedRecords ==
    /\ TotalClaimed(vault) = U64(Cardinality(Claimed(treasure_record)))
    /\ TotalMonstersMinted(td_vault) = U64(Cardinality(Claimed(deposit_record)))

\* C29 witness: a claim has succeeded on a vault that holds a claimed and an
\* unclaimed record
C29_Witness ==
    \/ /\ result.ix = "claim_treasure"
       /\ result.err = "Ok"
       /\ Claimed(treasure_record) # {}
       /\ Claimed(treasure_record) # DOMAIN treasure_record
    \/ /\ result.ix = "claim_monster"
       /\ result.err = "Ok"
       /\ Claimed(deposit_record) # {}
       /\ Claimed(deposit_record) # DOMAIN deposit_record

\* ==================================================================
\* properties of the net supply
\* ==================================================================

\* C30: with a token program that refuses a burn above the holder's balance,
\* and the mint's units created only by mine_tokens / mine_booty, in every
\* reachable state total_burned <= total_mined, and total_mined - total_burned
\* is the supply of the mint: the subtraction made when a burn reports the net
\* supply never goes below 0.
C30_NetSupplyNeverUnderflows ==
    /\ LedgerExists
           => /\ Le(Ledger.total_burned, Ledger.total_mined)
              /\ Sub(Ledger.total_mined, Ledger.total_burned) = Supply(token_account)
    /\ BootyStateExists
           => /\ Le(BootyLedger.total_burned, BootyLedger.total_mined)
              /\ Sub(BootyLedger.total_mined, BootyLedger.total_burned)
                     = Supply(player_booty_account)

\* C30 witness: a burn has succeeded that left nothing of what was mined
C30_Witness ==
    \/ /\ result.ix = "burn_tokens"
       /\ result.err = "Ok"
       /\ Lt(U64(0), Ledger.total_mined)
       /\ Ledger.total_burned = Ledger.total_mined
    \/ /\ result.ix = "burn_booty_for_travel"
       /\ result.err = "Ok"
       /\ Lt(U64(0), BootyLedger.total_mined)
       /\ BootyLedger.total_burned = BootyLedger.total_mined

\* ==================================================================
\* properties of who may mint
\* ==================================================================

\* a mint of `amount` on a ledger with this total and cap is accepted: the
\* new total fits in u64 and does not exceed the cap
MintAccepted(total_mined, amount, max_supply) ==
    /\ Fits(total_mined, amount)
    /\ IsSome(max_supply) => Le(Add(total_mined, amount), Unwrap(max_supply))

\* C31: a mint is not gated by the stored authority.  For every mint step of
\* the ledger's own asset, the same request signed by any other caller has the
\* same outcome (the same error or success, the same ledger account after
\* it); the mint succeeds exactly when total_mined + amount fits in u64 and is
\* within the cap (always within it when max_supply is None), and then
\* total_mined rises by the amount, else it stays.  The caller is the payer of
\* mine_tokens and the signing player of mine_booty.
C31_MintNotGatedByAuthority ==
    [][/\ (result'.ix = "mine_tokens" /\ LedgerExists) =>
           \A payer \in Keys, player \in Keys, amount \in LedgerAmounts :
               MineTokensTx(payer, player, BootyMintKey, amount)
               => /\ \A other \in Keys : MineTokensTx(other, player, BootyMintKey, amount)
                  /\ result'.err = "Ok"
                         <=> MintAccepted(Ledger.total_mined, amount, Ledger.max_supply)
                  /\ config'[ConfigPda].total_mined =
                         IF MintAccepted(Ledger.total_mined, amount, Ledger.max_supply)
                         THEN Add(Ledger.total_mined, amount) ELSE Ledger.total_mined
       /\ (result'.ix = "mine_booty" /\ BootyStateExists) =>
           \A player \in Keys, amount \in LedgerAmounts :
               MineBootyTx(player, GameBootyMintKey, amount)
               => /\ \A other \in Keys :
                         LET o == mine_booty(booty_state, player_booty_account,
                                             other, GameBootyMintKey, amount)
                         IN  o.err = result'.err /\ o.booty_state = booty_state'
                  /\ result'.err = "Ok"
                         <=> MintAccepted(BootyLedger.total_mined, amount,
                                          BootyLedger.max_supply)
                  /\ booty_state'[BootyStatePda].total_mined =
                         IF MintAccepted(BootyLedger.total_mined, amount,
                                         BootyLedger.max_supply)
                         THEN Add(BootyLedger.total_mined, amount)
                         ELSE BootyLedger.total_mined
      ]_vars

\* C31 witness: a mint has succeeded and filled the cap while the authority
\* holds no token account (the signing player was not the authority), or
\* filled the whole u64 range on a ledger without a cap
C31_Witness ==
    /\ result.ix = "mine_booty"
    /\ result.err = "Ok"
    /\ BootyLedger.authority \notin DOMAIN player_booty_account
    /\ \/ BootyLedger.max_supply = Some(BootyLedger.total_mined)
       \/ BootyLedger.max_supply = None /\ BootyLedger.total_mined = U64_MAX

\* ==================================================================
\* properties of the record addresses
\* ==================================================================

\* the addresses at which the record store `after` differs from `before`
ChangedAt(before, after) ==
    {k \in (DOMAIN before) \cup (DOMAIN after) :
        ~(k \in DOMAIN before /\ k \in DOMAIN after /\ before[k] = after[k])}

\* C32: records at different derived addresses never alias.  A deposit, a
\* claim or a search for (player, nonce) changes no record but the one at that
\* address in its own namespace ("treasure" or "search"), and none in the
\* other namespace.  A deposit to a free (player, nonce), paid from an account
\* of the player that holds the amount, succeeds whatever records other
\* depositors hold under that nonce and whether or not the same player has a
\* search record under it; a search on a free (player, nonce) succeeds whether
\* or not the same player has a deposit record under it.
C32_RecordsNeverAlias ==
    [][/\ result'.ix = "hide_treasure" =>
           \A player \in Keys, treasure_id \in RecordIds :
               HideTreasureTx(player, TokenAccountOf(AssetMintKey, player),
                              TokenAccountOf(AssetMintKey, VaultOwner),
                              MIN_DEPOSIT, treasure_id)
               => /\ ChangedAt(treasure_record, treasure_record')
                         \subseteq {<<player, treasure_id>>}
                  /\ search_record' = search_record
                  /\ ( /\ VaultExists
                       /\ <<player, treasure_id>> \notin DOMAIN treasure_record
                       /\ Funded(Tokens, TokenAccountOf(AssetMintKey, player), MIN_DEPOSIT)
                       /\ Fits(TotalHidden(vault), MIN_DEPOSIT) )
                         => /\ result'.err = "Ok"
                            /\ <<player, treasure_id>> \in DOMAIN treasure_record'
       /\ result'.ix = "claim_treasure" =>
           \A key \in Keys \X RecordIds :
               ClaimTreasureTx(key[1], key)
               => /\ ChangedAt(treasure_record, treasure_record') \subseteq {key}
                  /\ search_record' = search_record
       /\ result'.ix = "search_treasure" =>
           \A player \in Keys, search_id \in RecordIds :
               SearchTreasureTx(player, -2147483647 - 1, 2147483647, search_id)
               => /\ ChangedAt(search_record, search_record')
                         \subseteq {<<player, search_id>>}
                  /\ treasure_record' = treasure_record
                  /\ <<player, search_id>> \notin DOMAIN search_record
                         => /\ result'.err = "Ok"
                            /\ <<player, search_id>> \in DOMAIN search_record'
      ]_vars

\* C32 witness: a deposit has succeeded under a nonce under which the other
\* depositor holds a deposit record and the same player a search record
C32_Witness ==
    /\ result.ix = "hide_treasure"
    /\ result.err = "Ok"
    /\ \E p \in Keys, q \in Keys, n \in RecordIds :
          /\ p # q
          /\ {<<p, n>>, <<q, n>>} \subseteq DOMAIN treasure_record
          /\ treasure_record[<<q, n>>].claimed
          /\ ~treasure_record[<<p, n>>].claimed
          /\ <<p, n>> \in DOMAIN search_record
          /\ <<q, n>> \notin DOMAIN search_record

\* ==================================================================
\* properties of write-once fields
\* ==================================================================

\* C33: whitelist entries and search records are write-once.  Over every
\* step of a run in which entries are created, deposits are made and claimed,
\* the authority is handed over and (in the game program) treasure is
\* searched: after the step every whitelist entry (of either vault program)
\* has enabled = TRUE and every search record has found = FALSE, and every
\* entry and every search record that existed before the step is still there,
\* unchanged.
C33_WriteOnce ==
    [][/\ \A m \in DOMAIN whitelist' : whitelist'[m].enabled
       /\ \A m \in DOMAIN td_whitelist' : td_whitelist'[m].enabled
       /\ \A k \in DOMAIN search_record' : ~search_record'[k].found
       /\ \A m \in DOMAIN whitelist :
              m \in DOMAIN whitelist' /\ whitelist'[m] = whitelist[m]
       /\ \A m \in DOMAIN td_whitelist :
              m \in DOMAIN td_whitelist' /\ td_whitelist'[m] = td_whitelist[m]
       /\ \A k \in DOMAIN search_record :
              k \in DOMAIN search_record' /\ search_record'[k] = search_record[k]
      ]_vars

\* C33 witness: a claim has succeeded, of a deposit of the token mint that is
\* on the whitelist, while a search record of the depositor exists; the entry
\* is enabled and the record not found
C33_Witness ==
    /\ result.ix = "claim_treasure"
    /\ result.err = "Ok"
    /\ AssetMintKey \in DOMAIN whitelist
    /\ whitelist[AssetMintKey].enabled
    /\ \E k \in DOMAIN treasure_record :
           /\ treasure_record[k].claimed
           /\ k \in DOMAIN search_record
           /\ ~search_record[k].found

\* ==================================================================
\* the two supply ledgers side by side
\* ==================================================================

\* A request is submitted to the booty program and to the game program, each
\* processing it in a transaction of its own.  The mint account the request
\* names at the game program is the ledger's own mint where the booty program
\* is handed its own, and the same foreign mint otherwise.
GameMintOf(mint) == IF mint = BootyMintKey THEN GameBootyMintKey ELSE mint
BootyMintOf(mint) == IF mint = GameBootyMintKey THEN BootyMintKey ELSE mint

\* both ledgers exist or neither, with the same counters and the same cap
SameLedger(cfg, bs) ==
    /\ (ConfigPda \in DOMAIN cfg) <=> (BootyStatePda \in DOMAIN bs)
    /\ ConfigPda \in DOMAIN cfg
           => /\ cfg[ConfigPda].total_mined = bs[BootyStatePda].total_mined
              /\ cfg[ConfigPda].total_burned = bs[BootyStatePda].total_burned
              /\ cfg[ConfigPda].max_supply = bs[BootyStatePda].max_supply

\* the two programs have processed the same requests: the ledgers are the
\* same and every wallet holds as much of the one token as of the other
SideBySide == SameLedger(config, booty_state) /\ token_account = player_booty_account

\* the error as the error taxonomy of the specification names it: a mint that
\* is not the ledger's own is InvalidMint in the booty program and
\* InvalidBootyMint in the game program
ErrorKind(err) == IF err = "InvalidBootyMint" THEN "InvalidMint" ELSE err

\* the game program answers a request as the step of the booty program did
GameAnswers(g) ==
    /\ ErrorKind(g.err) = ErrorKind(result'.err)
    /\ SameLedger(config', g.booty_state)
    /\ token_account' = g.accounts
\* the booty program answers a request as the step of the game program did
BootyAnswers(b) ==
    /\ ErrorKind(b.err) = ErrorKind(result'.err)
    /\ SameLedger(b.config, booty_state')
    /\ b.token_account = player_booty_account'

\* C34: the supply ledgers of booty and game are equivalent on initialise,
\* mint and burn.  Whenever the two have processed the same requests, every
\* transaction of the one program (an initialise, a mint or a burn, by any
\* payer and player, of any amount, naming any mint) ends as the same request
\* ends at the other program: both accept or both refuse with the same error,
\* and the counters (total_mined, total_burned), the cap and the token
\* balances the one program leaves are those the other leaves.
C34_LedgersEquivalent ==
    [][SideBySide =>
       /\ \A authority \in Keys, max_supply \in OptCaps :
              InitializeTx(authority, max_supply)
              => GameAnswers(initialize_booty_mint(booty_state, player_booty_account,
                                                   authority, GameBootyMintKey, max_supply))
       /\ \A payer \in Keys, player \in Keys, mint \in MintKeys, amount \in LedgerAmounts :
              MineTokensTx(payer, player, mint, amount)
              => GameAnswers(mine_booty(booty_state, player_booty_account,
                                        player, GameMintOf(mint), amount))
       /\ \A player \in Keys, holder \in Keys, mint \in MintKeys, amount \in LedgerAmounts :
              BurnTokensTx(player, holder, mint, amount)
              => GameAnswers(burn_booty_for_travel(booty_state, player_booty_account,
                                                   player, holder, GameMintOf(mint), amount))
       /\ \A authority \in Keys, max_supply \in OptCaps :
              InitializeBootyMintTx(authority, max_supply)
              => BootyAnswers(initialize(config, token_account, authority,
                                         BootyMintKey, max_supply))
       /\ \A player \in Keys, mint \in GameMintKeys, amount \in LedgerAmounts :
              MineBootyTx(player, mint, amount)
              => BootyAnswers(mine_tokens(config, token_account,
                                          player, BootyMintOf(mint), amount))
       /\ \A player \in Keys, holder \in Keys, mint \in GameMintKeys,
             amount \in LedgerAmounts :
              BurnBootyForTravelTx(player, holder, mint, amount)
              => BootyAnswers(burn_tokens(config, token_account,
                                          player, holder, BootyMintOf(mint), amount))
      ]_vars

\* C34 witness: the two programs have processed the same requests, a mint and
\* a burn among them, and the game program has then refused a mint for the
\* cap, as the booty program does in this state
C34_Witness ==
    /\ SideBySide
    /\ result.ix = "mine_booty"
    /\ result.err = "MaxSupplyExceeded"
    /\ Lt(U64(0), Ledger.total_burned)
    /\ Lt(U64(0), BootyLedger.total_mined)
    /\ \E payer \in Keys, player \in Keys, amount \in LedgerAmounts :
           mine_tokens(config, token_account, player, BootyMintKey, amount).err
               = "MaxSupplyExceeded"

\* ==================================================================
\* specification
\* ==================================================================

\* no instruction processed yet, no account of the programs created, the
\* asset accounts holding `assets`
InitState(assets) ==
    /\ result = Res("none", "Ok", FALSE)
    /\ config = NoAccounts
    /\ token_account = NoAccounts
    /\ cap_high = U64(0)
    /\ vault = NoAccounts
    /\ treasure_record = NoAccounts
    /\ whitelist = NoAccounts
    /\ td_vault = NoAccounts
    /\ deposit_record = NoAccounts
    /\ asset_account = assets
    /\ td_whitelist = NoAccounts
    /\ clock = 0
    /\ search_record = NoAccounts
    /\ booty_state = NoAccounts
    /\ player_booty_account = NoAccounts
    /\ nft_mint = NoAccounts
    /\ nft_metadata = NoAccounts
    /\ tier_call = None

InitAccounts == InitState(AssetInit)

\* the whole system: every instruction of the four programs, the token
\* accounts opened for the vault owner and the clock, in any order
Init == scope = "whole" /\ InitAccounts

Next ==
    \/ Initialize
    \/ MineTokens
    \/ BurnTokens
    \/ UpdateAuthority
    \/ UpdateMaxSupply
    \/ InitializeVault
    \/ HideTreasure
    \/ ClaimTreasure
    \/ UpdateVault
    \/ WhitelistToken
    \/ TdInitialize
    \/ DepositForMonster
    \/ ClaimMonster
    \/ TdUpdateVault
    \/ TdWhitelistToken
    \/ Tick
    \/ SearchTreasure
    \/ InitializeBootyMint
    \/ MineBooty
    \/ BurnBootyForTravel
    \/ OpenVaultAccount
    \/ MintCollectible
    \/ MintNft
    \/ CalculateTier

Spec == Init /\ [][Next]_vars

\* ------------------------------------------------------------------
\* Bounded specifications.  Each one starts from the same accounts as Spec
\* and takes some of the steps of Next: the instructions listed for its runs.
\* Every behaviour of a bounded specification is, but for the value of
\* `scope`, a behaviour of Spec.
\* ------------------------------------------------------------------

\* the runs with the booty program, and those with the $BOOTY ledger of the game
BootyScopes == {"booty", "booty_game", "booty_td"}
GameBootyScopes == {"game_booty", "game_economy"}
\* the runs with the vault of the game program, and those with its deposits
GameVaultScopes == {"game_vault", "game_whitelist", "game_economy", "booty_game"}
GameDepositScopes == {"game_vault", "game_economy", "booty_game"}
\* the runs with the vault of the treasure_deposit program, and those with
\* its deposits
TdScopes == {"td_vault", "td_whitelist", "booty_td"}
TdDepositScopes == {"td_vault", "booty_td"}

\* each program alone, the whitelists, the searches and the collectibles
\* alone, and a supply ledger with a vault
ProgramScopes ==
    {"booty", "game_vault", "game_whitelist", "game_search", "game_booty", "game_nft",
     "game_tier", "td_vault", "td_whitelist", "dotty_nft"} \cup CrossScopes
InitPrograms == scope \in ProgramScopes /\ InitAccounts
NextPrograms ==
    \/ scope \in BootyScopes /\ Initialize
    \/ scope \in BootyScopes /\ MineTokens
    \/ scope \in BootyScopes /\ BurnTokens
    \/ scope \in BootyScopes /\ UpdateAuthority
    \/ scope \in BootyScopes /\ UpdateMaxSupply
    \/ scope \in GameBootyScopes /\ InitializeBootyMint
    \/ scope \in GameBootyScopes /\ MineBooty
    \/ scope \in GameBootyScopes /\ BurnBootyForTravel
    \/ scope \in CrossScopes /\ OpenVaultAccount
    \/ scope \in GameVaultScopes /\ InitializeVault
    \/ scope \in GameDepositScopes /\ HideTreasure
    \/ scope \in GameDepositScopes /\ ClaimTreasure
    \/ scope \in GameVaultScopes /\ UpdateVault
    \/ scope = "game_whitelist" /\ WhitelistToken
    \/ scope \in TdScopes /\ TdInitialize
    \/ scope \in TdDepositScopes /\ DepositForMonster
    \/ scope \in TdDepositScopes /\ ClaimMonster
    \/ scope \in TdScopes /\ TdUpdateVault
    \/ scope = "td_whitelist" /\ TdWhitelistToken
    \/ scope \in TdDepositScopes /\ Tick
    \/ scope = "game_search" /\ SearchTreasure
    \/ scope = "dotty_nft" /\ MintCollectible
    \/ scope = "game_nft" /\ MintNft
    \/ scope = "game_tier" /\ CalculateTier
SpecPrograms == InitPrograms /\ [][NextPrograms]_vars

\* the two supply ledgers, alone and with the vaults their tokens are
\* deposited in
InitLedger == scope \in BootyScopes \cup GameBootyScopes /\ InitAccounts
NextLedger ==
    \/ scope \in BootyScopes /\ Initialize
    \/ scope \in BootyScopes /\ MineTokens
    \/ scope \in BootyScopes /\ BurnTokens
    \/ scope \in BootyScopes /\ UpdateAuthority
    \/ scope \in BootyScopes /\ UpdateMaxSupply
    \/ scope \in GameBootyScopes /\ InitializeBootyMint
    \/ scope \in GameBootyScopes /\ MineBooty
    \/ scope \in GameBootyScopes /\ BurnBootyForTravel
    \/ scope \in CrossScopes /\ OpenVaultAccount
    \/ scope \in GameDepositScopes /\ InitializeVault
    \/ scope \in GameDepositScopes /\ HideTreasure
    \/ scope \in GameDepositScopes /\ ClaimTreasure
    \/ scope \in GameDepositScopes /\ UpdateVault
    \/ scope = "booty_td" /\ TdInitialize
    \/ scope = "booty_td" /\ DepositForMonster
    \/ scope = "booty_td" /\ ClaimMonster
    \/ scope = "booty_td" /\ TdUpdateVault
    \/ scope = "booty_td" /\ Tick
SpecLedger == InitLedger /\ [][NextLedger]_vars

\* the deposit vaults of the game and treasure_deposit programs
InitVaults == scope \in {"game_vault", "td_vault"} /\ InitAccounts
NextVaults ==
    \/ scope = "game_vault" /\ InitializeVault
    \/ scope = "game_vault" /\ HideTreasure
    \/ scope = "game_vault" /\ ClaimTreasure
    \/ scope = "game_vault" /\ UpdateVault
    \/ scope = "td_vault" /\ TdInitialize
    \/ scope = "td_vault" /\ DepositForMonster
    \/ scope = "td_vault" /\ ClaimMonster
    \/ scope = "td_vault" /\ TdUpdateVault
    \/ scope = "td_vault" /\ Tick
SpecVaults == InitVaults /\ [][NextVaults]_vars

\* the token whitelists of the game and treasure_deposit programs
InitWhitelist == scope \in {"game_whitelist", "td_whitelist"} /\ InitAccounts
NextWhitelist ==
    \/ scope = "game_whitelist" /\ InitializeVault
    \/ scope = "game_whitelist" /\ UpdateVault
    \/ scope = "game_whitelist" /\ WhitelistToken
    \/ scope = "td_whitelist" /\ TdInitialize
    \/ scope = "td_whitelist" /\ TdUpdateVault
    \/ scope = "td_whitelist" /\ TdWhitelistToken
SpecWhitelist == InitWhitelist /\ [][NextWhitelist]_vars

\* a vault with its whitelist: the entries are created while deposits are
\* made and claimed, in the game program also while treasure is searched
InitEntries == scope \in EntryScopes /\ InitAccounts
NextEntries ==
    \/ scope = "game_entries" /\ InitializeVault
    \/ scope = "game_entries" /\ UpdateVault
    \/ scope = "game_entries" /\ WhitelistToken
    \/ scope = "game_entries" /\ HideTreasure
    \/ scope = "game_entries" /\ ClaimTreasure
    \/ scope = "game_entries" /\ SearchTreasure
    \/ scope = "td_entries" /\ TdInitialize
    \/ scope = "td_entries" /\ TdUpdateVault
    \/ scope = "td_entries" /\ TdWhitelistToken
    \/ scope = "td_entries" /\ DepositForMonster
    \/ scope = "td_entries" /\ ClaimMonster
    \/ scope = "td_entries" /\ Tick
SpecEntries == InitEntries /\ [][NextEntries]_vars

\* a vault with the collectibles: mint_nft beside the deposits and claims of
\* the game program, mint_collectible beside those of treasure_deposit
InitCollectibles == scope \in CollectibleScopes /\ InitAccounts
NextCollectibles ==
    \/ scope = "game_collectibles" /\ InitializeVault
    \/ scope = "game_collectibles" /\ HideTreasure
    \/ scope = "game_collectibles" /\ ClaimTreasure
    \/ scope = "game_collectibles" /\ MintNft
    \/ scope = "td_collectibles" /\ TdInitialize
    \/ scope = "td_collectibles" /\ DepositForMonster
    \/ scope = "td_collectibles" /\ ClaimMonster
    \/ scope = "td_collectibles" /\ Tick
    \/ scope = "td_collectibles" /\ MintCollectible
SpecCollectibles == InitCollectibles /\ [][NextCollectibles]_vars

\* search_treasure alone
InitSearch == scope = "game_search" /\ InitAccounts
NextSearch == SearchTreasure
SpecSearch == InitSearch /\ [][NextSearch]_vars

\* deposits, claims and searches of the game program together, each deposit
\* of the minimum from the depositor's own token account, which holds two
\* minimum deposits at the start, into the vault owner's
HideTreasureOwn ==
    \E player \in Keys, treasure_id \in RecordIds :
        HideTreasureTx(player, TokenAccountOf(AssetMintKey, player),
                       TokenAccountOf(AssetMintKey, VaultOwner), MIN_DEPOSIT, treasure_id)
ClaimTreasureOwn ==
    \E key \in Keys \X RecordIds : ClaimTreasureTx(key[1], key)
SearchTreasureAt ==
    \E player \in Keys, search_id \in RecordIds :
        SearchTreasureTx(player, -2147483647 - 1, 2147483647, search_id)
InitRecords == scope = "game_records" /\ InitState(AssetPurses)
NextRecords ==
    \/ InitializeVault
    \/ HideTreasureOwn
    \/ ClaimTreasureOwn
    \/ SearchTreasureAt
SpecRecords == InitRecords /\ [][NextRecords]_vars

\* the supply ledgers of the booty and the game program side by side: each
\* request is a transaction of its own with the one program or the other
InitPair == scope = "ledger_pair" /\ InitAccounts
NextPair ==
    \/ Initialize
    \/ MineTokens
    \/ BurnTokens
    \/ InitializeBootyMint
    \/ MineBooty
    \/ BurnBootyForTravel
SpecPair == InitPair /\ [][NextPair]_vars

\* calculate_tier alone
InitTier == scope = "game_tier" /\ InitAccounts
NextTier == CalculateTier
SpecTier == InitTier /\ [][NextTier]_vars

====
